---- MODULE Spec2Model ----
(***************************************************************************)
(* Model of go-gather: the archive expansion engine (TarExpander in its    *)
(* plain, gzip and bzip2 variants through untar, ZipExpander and           *)
(* Bzip2Expander), the expander and gatherer registries with the Matchers  *)
(* of the stock handlers, and the Gather calls of the source gatherers.    *)
(* Strings are sequences of one-character strings, so that path cleaning,  *)
(* joining, prefix tests and pattern matches are computed character by     *)
(* character.                                                              *)
(***************************************************************************)
EXTENDS Integers, Sequences, FiniteSets, TLC

VARIABLES
    kind,           \* which expander the call is made on: "tar", "zip", "bzip2"
    fileSizeLimit,  \* the expander's FileSizeLimit field
    filesLimit,     \* the expander's FilesLimit field
    src, dst, umask,\* the arguments of Expand (after pathExpanderFunc)
    via,            \* tar only: the routine Expand dispatched to
    pc,             \* position of the call
    err,            \* the error Expand returns ("none": nil)
    fs,             \* the filesystem below the root: path -> entry
    totalFileSize,  \* untar: totalFileSize
    filesCount,     \* untar: filesCount
    headerCount,    \* untar: headerCount
    seenDirs,       \* untar: seenDirs, path -> header
    cur,            \* extractFile / bzip2: path of the open output file
    totalBytes,     \* extractFile / bzip2: totalBytes
    remaining,      \* bytes the open stream still holds
    corrupt,        \* bzip2: the stream ends in a decoding error, not in EOF
    last,           \* history: the entry most recently taken from the archive
    nRead,          \* history: entries taken from the archive so far
    nReal,          \* history: of these, the file and directory entries
    nMade,          \* history: entries for which a file or directory was made
    declTotal,      \* history: sum of the declared sizes of the file entries taken
    archDirs,       \* history: destination path -> mode of its latest directory header
    written,        \* history: bytes written below dst by the call
    streamLen,      \* history: bzip2: decodable length of the stream
    expanders,      \* expand.expanders: the registered expanders, in order
    gatherers,      \* gather.gatherers: the registered gatherers, in order
    ociSource,      \* which of the two OCIGatherer.Matcher sources is built
    ret,            \* the library call made last, with what it returned
    procUmask,      \* the file mode creation mask of the process
    gatherer,       \* Gather: the gatherer called ("none": no call yet)
    ctxDone,        \* Gather: ctx is canceled at call entry
    processed,      \* GitGatherer.Gather: what processUrl returned
    repo,           \* OCIGatherer.Gather: the reference handed to orasCopy
    tmpDir,         \* GitGatherer.Gather: the scratch directory (empty: none)
    started,        \* Gather: the backend operations the call started
    stored,         \* the metadata kept in the gatherer values
    result,         \* Gather: what the call returned
    calls,          \* history: number of Gather calls made
    callers         \* the goroutines that share the registered gatherer values

ExpandVars == << kind, fileSizeLimit, filesLimit, src, dst, umask, via, pc, err, fs,
           totalFileSize, filesCount, headerCount, seenDirs, cur, totalBytes,
           remaining, corrupt, last, nRead, nReal, nMade, declTotal,
           archDirs, written, streamLen >>

LibVars == << expanders, gatherers, ociSource, ret, procUmask >>

GatherVars == << gatherer, ctxDone, processed, repo, tmpDir, started, stored, result,
                 calls, callers >>

\* what an Expand call keeps to itself; src, dst, pc and fs serve Gather as well
ExpandLocals == << kind, fileSizeLimit, filesLimit, umask, via, err, totalFileSize,
                   filesCount, headerCount, seenDirs, cur, totalBytes, remaining,
                   corrupt, last, nRead, nReal, nMade, declTotal, archDirs, written,
                   streamLen >>

vars == << ExpandVars, LibVars, GatherVars >>

----------------------------------------------------------------------------
(* Bounds of the model *)

MaxEntries == 3     \* entries one archive holds at most
MaxRead    == 2     \* bytes one Read into the copy buffer returns at most
MaxStream  == 4     \* decodable bytes of a bzip2 stream at most

SizeLimits  == {0, 2}       \* values of FileSizeLimit
CountLimits == {0, 2}       \* values of FilesLimit
Sizes       == {1, 2}       \* declared sizes of file entries

----------------------------------------------------------------------------
(* strings, path/filepath *)

Sep == "/"

HasPrefix(s, prefix) ==
    Len(prefix) <= Len(s) /\ SubSeq(s, 1, Len(prefix)) = prefix

HasSuffix(s, suffix) ==
    Len(suffix) <= Len(s) /\ SubSeq(s, Len(s) - Len(suffix) + 1, Len(s)) = suffix

TrimSuffix(s, suffix) ==
    IF suffix # <<>> /\ HasSuffix(s, suffix)
    THEN SubSeq(s, 1, Len(s) - Len(suffix))
    ELSE s

Contains(s, sub) ==
    \E i \in 1..(Len(s) - Len(sub) + 1) : SubSeq(s, i, i + Len(sub) - 1) = sub

RECURSIVE SplitFrom(_, _, _)
SplitFrom(s, i, acc) ==
    IF i > Len(s) THEN << acc >>
    ELSE IF s[i] = Sep THEN << acc >> \o SplitFrom(s, i + 1, << >>)
    ELSE SplitFrom(s, i + 1, Append(acc, s[i]))

\* the elements of s between separators (empty elements included)
Split(s) == SplitFrom(s, 1, << >>)

DotDot == << ".", "." >>

RECURSIVE CleanElems(_, _, _, _)
CleanElems(elems, i, rooted, out) ==
    IF i > Len(elems) THEN out
    ELSE LET e == elems[i] IN
         IF e = << >> \/ e = << "." >>
         THEN CleanElems(elems, i + 1, rooted, out)
         ELSE IF e = DotDot
         THEN IF Len(out) > 0 /\ out[Len(out)] # DotDot
              THEN CleanElems(elems, i + 1, rooted, SubSeq(out, 1, Len(out) - 1))
              ELSE IF rooted
              THEN CleanElems(elems, i + 1, rooted, out)
              ELSE CleanElems(elems, i + 1, rooted, Append(out, e))
         ELSE CleanElems(elems, i + 1, rooted, Append(out, e))

RECURSIVE JoinElems(_)
JoinElems(elems) ==
    IF elems = << >> THEN << >>
    ELSE IF Len(elems) = 1 THEN elems[1]
    ELSE elems[1] \o << Sep >> \o JoinElems(Tail(elems))

\* filepath.Clean
Clean(p) ==
    IF p = << >> THEN << "." >>
    ELSE LET rooted == p[1] = Sep
             body   == JoinElems(CleanElems(Split(p), 1, rooted, << >>))
         IN  IF rooted THEN << Sep >> \o body
             ELSE IF body = << >> THEN << "." >> ELSE body

\* filepath.Join of two elements
Join(a, b) ==
    IF a = << >> /\ b = << >> THEN << >>
    ELSE IF a = << >> THEN Clean(b)
    ELSE IF b = << >> THEN Clean(a)
    ELSE Clean(a \o << Sep >> \o b)

LastSep(p) ==
    LET idx == { i \in 1..Len(p) : p[i] = Sep }
    IN  IF idx = {} THEN 0 ELSE CHOOSE i \in idx : \A j \in idx : j <= i

\* filepath.Dir
Dir(p) == Clean(SubSeq(p, 1, LastSep(p)))

RECURSIVE TrimSeps(_)
TrimSeps(p) ==
    IF Len(p) > 0 /\ p[Len(p)] = Sep THEN TrimSeps(SubSeq(p, 1, Len(p) - 1)) ELSE p

\* filepath.Base
Base(p) ==
    IF p = << >> THEN << "." >>
    ELSE LET t == TrimSeps(p)
         IN  IF t = << >> THEN << Sep >>
             ELSE SubSeq(t, LastSep(t) + 1, Len(t))

\* filepath.Ext
Ext(p) ==
    LET dots == { i \in (LastSep(p) + 1)..Len(p) : p[i] = "." }
    IN  IF dots = {} THEN << >>
        ELSE SubSeq(p, CHOOSE i \in dots : \A j \in dots : j <= i, Len(p))

----------------------------------------------------------------------------
(* inputs *)

DefaultDirMode == 493       \* 0755
Bz2FileMode    == 420       \* 0644

DirModes   == {448, 365}    \* archived directory modes 0700, 0555
FileModes  == {420}         \* archived file modes 0644
UmaskArgs  == {493}         \* the umask argument of Expand (zip, bzip2 use it as a mode)

NameA    == << "a" >>
NameAB   == << "a", "/", "b" >>
NameC    == << "c" >>
NameEsc  == << ".", ".", "/", "d", "x" >>       \* ../dx: a sibling of /d
NameDot  == << "." >>                           \* the destination itself
Names    == { NameA, NameAB, NameC, NameEsc, NameDot }

DstD      == << "/", "d" >>
DstDSlash == << "/", "d", "/" >>
Dsts      == { DstD, DstDSlash }

SrcTar  == << "/", "s", "/", "x", ".", "t", "a", "r" >>
SrcTgz  == << "/", "s", "/", "x", ".", "t", "g", "z" >>
SrcTbz2 == << "/", "s", "/", "x", ".", "t", "b", "z", "2" >>
TarSources == { SrcTar, SrcTgz, SrcTbz2 }

SrcZip  == << "/", "s", "/", "x", ".", "z", "i", "p" >>

NoEntry == [ name |-> << >>, typ |-> "none", size |-> 0, actual |-> 0, mode |-> 0 ]

\* the headers tarReader.Next() can hand to untar
ExtendedHeaders ==
    { [ name |-> NameA, typ |-> t, size |-> 0, actual |-> 0, mode |-> 0 ] :
        t \in { "xglobal", "xheader" } }

DirEntries ==
    { [ name |-> n, typ |-> "dir", size |-> 0, actual |-> 0, mode |-> m ] :
        n \in Names, m \in DirModes }

\* a tar entry streams exactly the bytes its header declares
TarFileEntries ==
    { [ name |-> n, typ |-> "reg", size |-> s, actual |-> s, mode |-> m ] :
        n \in Names, s \in Sizes, m \in FileModes }

TarHeaders == ExtendedHeaders \cup DirEntries \cup TarFileEntries

\* the entries of archive.File; the stream of an entry may hold more bytes than
\* the size field of the central directory declares (actual > size)
ZipFileEntries ==
    { [ name |-> n, typ |-> "reg", size |-> s, actual |-> a, mode |-> m ] :
        n \in Names, s \in Sizes, a \in Sizes \cup { MaxRead + 1 }, m \in FileModes }

ZipFiles ==
    { e \in DirEntries : e.mode = 448 }
        \cup { e \in ZipFileEntries : e.actual = e.size \/ (e.actual = MaxRead + 1 /\ e.size = 2) }

SrcFTxtBz2 == << "/", "s", "/", "f", ".", "t", "x", "t", ".", "b", "z", "2" >>
SrcFBz2    == << "/", "s", "/", "f", ".", "b", "z", "2" >>
SrcDotBz2  == << "/", "s", "/", ".", "b", "z", "2" >>
Bz2Sources == { SrcFTxtBz2, SrcFBz2, SrcDotBz2 }

----------------------------------------------------------------------------
(* the filesystem: os.MkdirAll, os.OpenFile *)

RECURSIVE ClearBits(_, _)
\* mode &^ mask
ClearBits(mode, mask) ==
    IF mode = 0 THEN 0
    ELSE (IF mode % 2 = 1 /\ mask % 2 = 0 THEN 1 ELSE 0)
         + 2 * ClearBits(mode \div 2, mask \div 2)

\* the mode a file or directory is created with: the mode asked for, less the
\* bits of the process umask
Masked(mode) == IF procUmask = 0 THEN mode ELSE ClearBits(mode, procUmask)

NewDir(mode)  == [ kind |-> "dir",  mode |-> mode, size |-> 0, meta |-> FALSE ]
NewFile(mode) == [ kind |-> "file", mode |-> mode, size |-> 0, meta |-> FALSE ]

\* p and the directories above it, the root left out
PathsTo(p) ==
    LET rooted == p # << >> /\ p[1] = Sep
        el     == CleanElems(Split(p), 1, rooted, << >>)
    IN  { (IF rooted THEN << Sep >> ELSE << >>) \o JoinElems(SubSeq(el, 1, k)) :
            k \in 1..Len(el) }

IsDirAt(f, p) == p = << Sep >> \/ (p \in DOMAIN f /\ f[p].kind = "dir")

MkdirAllOk(f, p) == \A q \in PathsTo(p) : q \in DOMAIN f => f[q].kind = "dir"

MkdirAllAs(f, p, made) ==
    [ q \in DOMAIN f \cup PathsTo(p) |-> IF q \in DOMAIN f THEN f[q] ELSE made ]

MkdirAll(f, p, mode) == MkdirAllAs(f, p, NewDir(Masked(mode)))

\* O_WRONLY|O_CREATE|O_TRUNC
OpenFileOk(f, p) ==
    /\ IsDirAt(f, Dir(p))
    /\ p # << Sep >>
    /\ p \in DOMAIN f => f[p].kind = "file"

OpenFile(f, p, mode) ==
    [ q \in DOMAIN f \cup { p } |->
        IF q # p THEN f[q]
        ELSE IF p \in DOMAIN f THEN [ f[p] EXCEPT !.size = 0 ]
        ELSE NewFile(Masked(mode)) ]

WriteBytes(f, p, n) == [ f EXCEPT ![p].size = @ + n ]

----------------------------------------------------------------------------
(* TarExpander *)

IsDir(h) == h.typ = "dir"

IsExtendedHeader(h) == h.typ \in { "xglobal", "xheader" }

\* mutant: the count is compared with >=
FilesLimitExceededOffByOne(count, limit) == count >= limit

FilesLimitExceeded(count, limit) == count > limit

\* mutant: the prefix is compared without the trailing separator
TarPathAllowedNoSeparator(d, name) ==
    HasPrefix(Clean(Join(d, name)), Clean(d))

TarPathAllowed(d, name) ==
    HasPrefix(Clean(Join(d, name)), Clean(d) \o << Sep >>)

\* mutant: the limit 0 is not taken as "no limit"
TarSizeExceededNoZero(total, limit) == total > limit

TarSizeExceeded(total, limit) == limit > 0 /\ total > limit

\* mutant: the directory is given its archived mode and times when it is made
TarNewDirArchived(h) == [ NewDir(h.mode) EXCEPT !.meta = TRUE ]

\* what os.MkdirAll(fPath, 0755) makes for a directory header
TarNewDir(h) == NewDir(Masked(DefaultDirMode))

UntarDir(h, fPath, u) ==
    IF ~MkdirAllOk(u.fs, fPath) THEN [ u EXCEPT !.err = "mkdir" ]
    ELSE [ u EXCEPT !.fs = MkdirAllAs(u.fs, fPath, TarNewDir(h)),
                    !.seenDirs = (fPath :> h) @@ u.seenDirs ]

UntarFile(h, fPath, u) ==
    LET destPath == Dir(fPath)
        \* os.Stat(destPath) reports not-exist; any other outcome skips MkdirAll
        absent   == destPath \notin DOMAIN u.fs /\ MkdirAllOk(u.fs, destPath)
        f1       == IF absent THEN MkdirAll(u.fs, destPath, DefaultDirMode) ELSE u.fs
    IN  IF ~OpenFileOk(f1, fPath) THEN [ u EXCEPT !.fs = f1, !.err = "create" ]
        ELSE [ u EXCEPT
                 !.fs = [ WriteBytes(OpenFile(f1, fPath, h.mode), fPath, h.actual)
                            EXCEPT ![fPath].meta = TRUE ],
                 !.written = @ + h.actual,
                 !.wrote = TRUE ]

\* one pass of the loop body of untar, for the header h
UntarHeader(h) ==
    LET u0 == [ totalFileSize |-> totalFileSize, filesCount |-> filesCount,
                headerCount |-> headerCount + 1, seenDirs |-> seenDirs,
                fs |-> fs, written |-> written, err |-> "none", wrote |-> FALSE ]
        u1 == IF filesLimit > 0 THEN [ u0 EXCEPT !.filesCount = @ + 1 ] ELSE u0
    IN  IF filesLimit > 0 /\ FilesLimitExceeded(u1.filesCount, filesLimit)
        THEN [ u1 EXCEPT !.err = "count" ]
        ELSE IF IsExtendedHeader(h) THEN u1
        ELSE LET fPath == Join(dst, h.name)
             IN  IF ~TarPathAllowed(dst, h.name) THEN [ u1 EXCEPT !.err = "illegal" ]
                 ELSE LET u2 == IF ~IsDir(h)
                                THEN [ u1 EXCEPT !.totalFileSize = @ + h.size ]
                                ELSE u1
                      IN  IF ~IsDir(h) /\ TarSizeExceeded(u2.totalFileSize, fileSizeLimit)
                          THEN [ u2 EXCEPT !.err = "size" ]
                          ELSE IF IsDir(h) THEN UntarDir(h, fPath, u2)
                          ELSE UntarFile(h, fPath, u2)

TarVia(s) ==
    IF Contains(s, << "t", "a", "r", ".", "g", "z" >>) \/ Contains(s, << "t", "g", "z" >>)
    THEN "extractTarGz"
    ELSE IF Contains(s, << "t", "a", "r", ".", "b", "z", "2" >>)
            \/ Contains(s, << "t", "b", "z", "2" >>)
    THEN "extractTarBz"
    ELSE "untar"

Real(h) == h.typ \in { "reg", "dir" }

ZipVars   == << cur, totalBytes, remaining >>
BzVars    == << corrupt, streamLen >>
UntarVars == << totalFileSize, filesCount, headerCount, seenDirs >>
CallVars  == << kind, fileSizeLimit, filesLimit, src, dst, umask, via >>
HistVars  == << last, nRead, nReal, nMade, declTotal, archDirs, written >>

\* TarExpander.Expand up to the call of untar
TarExpand ==
    /\ pc = "idle" /\ kind = "tar"
    /\ \E s \in TarSources, d \in Dsts, m \in UmaskArgs :
         /\ src' = s /\ dst' = d /\ umask' = m
         /\ via' = TarVia(s)
         /\ \/ pc' = "untar" /\ err' = "none"
            \/ pc' = "done" /\ err' = "open"
            \/ TarVia(s) = "extractTarGz" /\ pc' = "done" /\ err' = "gzip"
    /\ UNCHANGED << LibVars, GatherVars >>
    /\ UNCHANGED << kind, fileSizeLimit, filesLimit, fs, UntarVars, ZipVars, BzVars, HistVars >>

\* tarReader.Next() returns a header
UntarEntry ==
    /\ pc = "untar" /\ nRead < MaxEntries
    /\ \E h \in TarHeaders :
         LET r == UntarHeader(h)
         IN  /\ totalFileSize' = r.totalFileSize
             /\ filesCount' = r.filesCount
             /\ headerCount' = r.headerCount
             /\ seenDirs' = r.seenDirs
             /\ fs' = r.fs
             /\ written' = r.written
             /\ err' = r.err
             /\ pc' = IF r.err = "none" THEN "untar" ELSE "done"
             /\ last' = h
             /\ nRead' = nRead + 1
             /\ nReal' = IF Real(h) THEN nReal + 1 ELSE nReal
             /\ nMade' = IF Real(h) /\ r.err = "none" THEN nMade + 1 ELSE nMade
             /\ declTotal' = IF h.typ = "reg" THEN declTotal + h.size ELSE declTotal
             /\ archDirs' = IF h.typ = "dir" /\ r.err = "none"
                             THEN (Clean(Join(dst, h.name)) :> h.mode) @@ archDirs
                             ELSE archDirs
    /\ UNCHANGED << LibVars, GatherVars >>
    /\ UNCHANGED << CallVars, ZipVars, BzVars >>

\* tarReader.Next() returns io.EOF
UntarEOF ==
    /\ pc = "untar"
    /\ IF headerCount = 0 THEN pc' = "done" /\ err' = "empty"
       ELSE IF DOMAIN seenDirs = {} THEN pc' = "done" /\ err' = "none"
       ELSE pc' = "dirs" /\ err' = "none"
    /\ UNCHANGED << LibVars, GatherVars >>
    /\ UNCHANGED << CallVars, fs, UntarVars, ZipVars, BzVars, HistVars >>

\* tarReader.Next() returns another error
UntarReadError ==
    /\ pc = "untar"
    /\ pc' = "done" /\ err' = "header"
    /\ UNCHANGED << LibVars, GatherVars >>
    /\ UNCHANGED << CallVars, fs, UntarVars, ZipVars, BzVars, HistVars >>

\* one pass of the loop over seenDirs: os.Chmod and os.Chtimes of one directory
UntarDirMeta ==
    /\ pc = "dirs"
    /\ \E p \in DOMAIN seenDirs :
         /\ ~fs[p].meta
         /\ fs' = [ fs EXCEPT ![p].mode = seenDirs[p].mode, ![p].meta = TRUE ]
         /\ pc' = IF \A q \in DOMAIN seenDirs \ { p } : fs[q].meta THEN "done" ELSE "dirs"
    /\ UNCHANGED << LibVars, GatherVars >>
    /\ UNCHANGED << CallVars, err, UntarVars, ZipVars, BzVars, HistVars >>

----------------------------------------------------------------------------
(* ZipExpander *)

Min(a, b) == IF a < b THEN a ELSE b

ZipDeclaredTooLarge(f, limit) == limit > 0 /\ f.size > limit

ZipPathAllowed(d, name) ==
    HasPrefix(Join(d, name), Clean(d) \o << Sep >>)

\* mutant: the bytes read are not checked, the declared size is trusted
ZipReadUnchecked(total, limit) == FALSE

ZipReadTooLarge(total, limit) == limit > 0 /\ total > limit

\* ZipExpander.Expand up to the loop over archive.File
ZipExpand ==
    /\ pc = "idle" /\ kind = "zip"
    /\ \E d \in Dsts, m \in UmaskArgs :
         /\ src' = SrcZip /\ dst' = d /\ umask' = m
         /\ \/ pc' = "zip" /\ err' = "none"
            \/ pc' = "done" /\ err' = "open"
    /\ UNCHANGED << LibVars, GatherVars >>
    /\ UNCHANGED << kind, fileSizeLimit, filesLimit, via, fs, UntarVars, ZipVars, BzVars,
                    HistVars >>

\* one pass of the loop over archive.File, up to the copy loop of extractFile
ZipBody(f) ==
    LET z0       == [ fs |-> fs, err |-> "none", open |-> FALSE ]
        filePath == Join(dst, f.name)
    IN  IF ZipDeclaredTooLarge(f, fileSizeLimit) THEN [ z0 EXCEPT !.err = "size" ]
        ELSE IF ~ZipPathAllowed(dst, f.name) THEN [ z0 EXCEPT !.err = "illegal" ]
        ELSE IF IsDir(f)
        THEN IF ~MkdirAllOk(fs, filePath) THEN [ z0 EXCEPT !.err = "mkdir" ]
             ELSE [ z0 EXCEPT !.fs = MkdirAll(fs, filePath, umask) ]
        ELSE IF ~MkdirAllOk(fs, Dir(filePath)) THEN [ z0 EXCEPT !.err = "mkdir" ]
        ELSE LET f1 == MkdirAll(fs, Dir(filePath), umask)
             IN  IF ~OpenFileOk(f1, filePath) THEN [ z0 EXCEPT !.fs = f1, !.err = "create" ]
                 ELSE [ z0 EXCEPT !.fs = OpenFile(f1, filePath, f.mode), !.open = TRUE ]

ZipEntry ==
    /\ pc = "zip" /\ nRead < MaxEntries
    /\ \E f \in ZipFiles :
         LET r == ZipBody(f)
         IN  /\ fs' = r.fs
             /\ err' = r.err
             /\ pc' = IF r.err # "none" THEN "done" ELSE IF r.open THEN "extract" ELSE "zip"
             /\ cur' = IF r.open THEN Join(dst, f.name) ELSE cur
             /\ totalBytes' = IF r.open THEN 0 ELSE totalBytes
             /\ remaining' = IF r.open THEN f.actual ELSE remaining
             /\ last' = f
             /\ nRead' = nRead + 1
             /\ nReal' = nReal + 1
             /\ nMade' = IF r.err = "none" THEN nMade + 1 ELSE nMade
             /\ declTotal' = IF f.typ = "reg" THEN declTotal + f.size ELSE declTotal
    /\ UNCHANGED << LibVars, GatherVars >>
    /\ UNCHANGED << CallVars, UntarVars, BzVars, archDirs, written >>

\* one pass of the copy loop of extractFile: srcFile.Read returns n bytes
ZipRead ==
    /\ pc = "extract"
    /\ \E n \in 1..Min(MaxRead, remaining) :
         /\ totalBytes' = totalBytes + n
         /\ IF ZipReadTooLarge(totalBytes + n, fileSizeLimit)
            THEN /\ pc' = "done" /\ err' = "extracted"
                 /\ UNCHANGED << fs, written, remaining >>
            ELSE /\ fs' = WriteBytes(fs, cur, n)
                 /\ written' = written + n
                 /\ remaining' = remaining - n
                 /\ pc' = IF remaining - n = 0 THEN "zip" ELSE "extract"
                 /\ err' = "none"
    /\ UNCHANGED << LibVars, GatherVars >>
    /\ UNCHANGED << CallVars, UntarVars, BzVars, cur, last, nRead, nReal, nMade, declTotal,
                    archDirs >>

\* srcFile.Read fails
ZipReadError ==
    /\ pc = "extract"
    /\ pc' = "done" /\ err' = "read"
    /\ UNCHANGED << LibVars, GatherVars >>
    /\ UNCHANGED << CallVars, fs, UntarVars, ZipVars, BzVars, HistVars >>

\* the loop over archive.File ends
ZipEnd ==
    /\ pc = "zip"
    /\ pc' = "done" /\ err' = "none"
    /\ UNCHANGED << LibVars, GatherVars >>
    /\ UNCHANGED << CallVars, fs, UntarVars, ZipVars, BzVars, HistVars >>

----------------------------------------------------------------------------
(* Bzip2Expander *)

Bz2BaseName(s) == TrimSuffix(Base(s), Ext(s))

Bz2OutPath(d, s) == Join(d, Bz2BaseName(s))

\* mutant: the bytes just read are left out of the comparison
Bz2TooLargeBeforeRead(total, n, limit) == total > limit /\ limit > 0

Bz2TooLarge(total, n, limit) == total + n > limit /\ limit > 0

\* Bzip2Expander.Expand up to the copy loop
Bz2Expand ==
    /\ pc = "idle" /\ kind = "bzip2"
    /\ \E s \in Bz2Sources, d \in Dsts, m \in UmaskArgs, len \in 0..MaxStream, c \in BOOLEAN :
         /\ src' = s /\ dst' = d /\ umask' = m
         /\ \/ /\ pc' = "done" /\ err' = "open"
               /\ UNCHANGED << fs, cur, remaining, corrupt, streamLen >>
            \/ \* os.MkdirAll(dst, umask) fails
               /\ pc' = "done" /\ err' = "mkdir"
               /\ UNCHANGED << fs, cur, remaining, corrupt, streamLen >>
            \/ /\ MkdirAllOk(fs, d)
               /\ LET f1    == MkdirAll(fs, d, m)
                      fpath == Bz2OutPath(d, s)
                  IN  IF ~OpenFileOk(f1, fpath)
                      THEN /\ fs' = f1 /\ pc' = "done" /\ err' = "create"
                           /\ UNCHANGED << cur, remaining, corrupt, streamLen >>
                      ELSE /\ fs' = OpenFile(f1, fpath, Bz2FileMode)
                           /\ cur' = fpath /\ remaining' = len /\ streamLen' = len
                           /\ corrupt' = c
                           /\ pc' = "bzcopy" /\ err' = "none"
    /\ UNCHANGED << LibVars, GatherVars >>
    /\ UNCHANGED << kind, fileSizeLimit, filesLimit, via, UntarVars, totalBytes, HistVars >>

\* one pass of the copy loop: bzipReader.Read returns n bytes, and the end of
\* the stream (io.EOF, or a decoding error) once nothing remains
Bz2Read ==
    /\ pc = "bzcopy"
    /\ \E n \in 0..Min(MaxRead, remaining) :
         /\ n = 0 => remaining = 0
         /\ IF n > 0 /\ Bz2TooLarge(totalBytes, n, fileSizeLimit)
            THEN /\ pc' = "done" /\ err' = "size"
                 /\ UNCHANGED << fs, written, remaining, totalBytes >>
            ELSE /\ fs' = IF n > 0 THEN WriteBytes(fs, cur, n) ELSE fs
                 /\ written' = written + n
                 /\ totalBytes' = totalBytes + n
                 /\ remaining' = remaining - n
                 /\ IF remaining - n > 0 THEN pc' = "bzcopy" /\ err' = "none"
                    ELSE IF corrupt THEN pc' = "done" /\ err' = "decompress"
                    ELSE pc' = "done" /\ err' = "none"
    /\ UNCHANGED << LibVars, GatherVars >>
    /\ UNCHANGED << CallVars, UntarVars, BzVars, cur, last, nRead, nReal, nMade, declTotal,
                    archDirs >>

----------------------------------------------------------------------------
(* expand/expander.go, gather/gatherer.go: the two registries, the Matchers *)
(* of the stock handlers, the detector functions and the file sniffers      *)

MaxRegistered == 3  \* registrations (of expanders and gatherers together)

\* TarExpander.Matcher
TarMatcher(fileName) ==
    \E ext \in { << "t", "a", "r" >>, << "t", "g", "z" >>, << "t", "b", "z", "2" >> } : Contains(fileName, ext)

\* ZipExpander.Matcher
ZipMatcher(extension) == Contains(extension, << "z", "i", "p" >>)

\* Bzip2Expander.Matcher
Bzip2Matcher(extension) ==
    /\ Contains(extension, << "b", "z", "2" >>) \/ Contains(extension, << "b", "z", "i", "p", "2" >>)
    /\ ~Contains(extension, << "t", "a", "r" >>)

Expanders == { "TarExpander", "ZipExpander", "Bzip2Expander" }

\* expander.Matcher(extension): the method of the registered value
ExpanderMatcher(e, extension) ==
    CASE e = "TarExpander"   -> TarMatcher(extension)
      [] e = "ZipExpander"   -> ZipMatcher(extension)
      [] e = "Bzip2Expander" -> Bzip2Matcher(extension)

\* FileGatherer.Matcher
FileMatcher(uri) ==
    \E prefix \in { << "f", "i", "l", "e", ":", "/", "/" >>, << "f", "i", "l", "e", ":", ":" >>, << "/" >>, << ".", "/" >>, << ".", ".", "/" >> } : HasPrefix(uri, prefix)

\* GitGatherer.Matcher
GitMatcher(uri) ==
    IF \E term \in { << "g", "i", "t", "@" >>, << "g", "i", "t", ":", "/", "/" >>, << "g", "i", "t", ":", ":" >> } : HasPrefix(uri, term) THEN TRUE
    ELSE IF Contains(uri, << ":", ":" >>) THEN FALSE
    ELSE IF \E term \in { << "g", "i", "t", "h", "u", "b", ".", "c", "o", "m" >>, << "g", "i", "t", "l", "a", "b", ".", "c", "o", "m" >>, << "b", "i", "t", "b", "u", "c", "k", "e", "t", ".", "o", "r", "g" >> } : Contains(uri, term)
    THEN TRUE
    ELSE HasSuffix(uri, << ".", "g", "i", "t" >>)

\* HTTPGatherer.Matcher
HTTPMatcher(uri) ==
    \E prefix \in { << "h", "t", "t", "p", ":", "/", "/" >>, << "h", "t", "t", "p", "s", ":", "/", "/" >> } :
        /\ HasPrefix(uri, prefix)
        /\ ~(\/ Contains(uri, << "g", "i", "t", "h", "u", "b", ".", "c", "o", "m" >>)
             \/ Contains(uri, << "g", "i", "t", "l", "a", "b", ".", "c", "o", "m" >>)
             \/ Contains(uri, << "b", "i", "t", "b", "u", "c", "k", "e", "t", ".", "c", "o", "m" >>))

\* regexp: a pattern is a sequence of atoms, each a character class repeated
\* lo..hi times (hi = -1: any number of times); any = TRUE is the class "."
Digits == { "0", "1", "2", "3", "4", "5", "6", "7", "8", "9" }
Lower  == { "a", "b", "c", "d", "e", "f", "g", "h", "i", "j", "k", "l", "m",
            "n", "o", "p", "q", "r", "s", "t", "u", "v", "w", "x", "y", "z" }

Atom(chars, lo, hi) == << [ any |-> FALSE, chars |-> chars, lo |-> lo, hi |-> hi ] >>
Dot == << [ any |-> TRUE, chars |-> { }, lo |-> 1, hi |-> 1 ] >>
Lit(str) == [ j \in 1..Len(str) |-> [ any |-> FALSE, chars |-> { str[j] }, lo |-> 1, hi |-> 1 ] ]
\* (?i:localhost)
AnyCaseLocalhost ==
    Atom({ "l", "L" }, 1, 1) \o Atom({ "o", "O" }, 1, 1) \o Atom({ "c", "C" }, 1, 1)
    \o Atom({ "a", "A" }, 1, 1) \o Atom({ "l", "L" }, 1, 1) \o Atom({ "h", "H" }, 1, 1)
    \o Atom({ "o", "O" }, 1, 1) \o Atom({ "s", "S" }, 1, 1) \o Atom({ "t", "T" }, 1, 1)

RECURSIVE MatchHere(_, _, _, _)
\* the atoms of re from the k-th on match a stretch of s that starts at i
MatchHere(re, k, s, i) ==
    IF k > Len(re) THEN TRUE
    ELSE \E n \in re[k].lo .. (IF re[k].hi < 0 THEN Len(s) - i + 1
                              ELSE Min(re[k].hi, Len(s) - i + 1)) :
            /\ \A j \in i..(i + n - 1) : re[k].any \/ s[j] \in re[k].chars
            /\ MatchHere(re, k + 1, s, i + n)

\* Regexp.MatchString: the pattern matches somewhere in s (at its start when
\* the pattern begins with ^)
MatchString(re, s) ==
    \E i \in 1..(Len(s) + 1) : (re.anchored => i = 1) /\ MatchHere(re.atoms, 1, s, i)

\* the port of a loopback registry: :\d{1,5}
LoopbackPort == Lit(<< ":" >>) \o Atom(Digits, 1, 5)

\* containsOCIRegistry: matchRegistries
matchRegistries ==
    { [ anchored |-> FALSE, atoms |-> Lit(<< "a", "z", "u", "r", "e", "c", "r" >>) \o Dot \o Lit(<< "i", "o" >>) ],
      [ anchored |-> FALSE, atoms |-> Lit(<< "g", "c", "r" >>) \o Dot \o Lit(<< "i", "o" >>) ],
      [ anchored |-> FALSE,
        atoms |-> Lit(<< "r", "e", "g", "i", "s", "t", "r", "y" >>) \o Dot \o Lit(<< "g", "i", "t", "l", "a", "b" >>) \o Dot \o Lit(<< "c", "o", "m" >>) ],
      [ anchored |-> FALSE, atoms |-> Lit(<< "p", "k", "g" >>) \o Dot \o Lit(<< "d", "e", "v" >>) ],
      [ anchored |-> FALSE,
        atoms |-> Atom(Digits, 12, 12) \o Dot \o Lit(<< "d", "k", "r" >>) \o Dot \o Lit(<< "e", "c", "r" >>) \o Dot
                  \o Atom(Lower \cup Digits \cup { "-" }, 0, -1) \o Dot
                  \o Lit(<< "a", "m", "a", "z", "o", "n", "a", "w", "s" >>) \o Dot \o Lit(<< "c", "o", "m" >>) ],
      [ anchored |-> TRUE, atoms |-> Lit(<< "q", "u", "a", "y" >>) \o Dot \o Lit(<< "i", "o" >>) ],
      [ anchored |-> FALSE, atoms |-> Lit(<< ":", ":", "1" >>) \o LoopbackPort ],
      [ anchored |-> FALSE, atoms |-> Lit(<< "1", "2", "7", ".", "0", ".", "0", ".", "1" >>) \o LoopbackPort ],
      [ anchored |-> FALSE, atoms |-> AnyCaseLocalhost \o LoopbackPort ] }

containsOCIRegistry(source) == \E re \in matchRegistries : MatchString(re, source)

\* the two OCIGatherer.Matcher the sources hold: gather/oci/oci.go tests the
\* prefixes only, unnamed/part_003 goes on to containsOCIRegistry
OciSources == { "oci.go", "part_003" }

OCIMatcher(build, uri) ==
    IF \E prefix \in { << "o", "c", "i", ":", "/", "/" >>, << "o", "c", "i", ":", ":" >> } : HasPrefix(uri, prefix) THEN TRUE
    ELSE build = "part_003" /\ containsOCIRegistry(uri)

Gatherers == { "FileGatherer", "GitGatherer", "HTTPGatherer", "OCIGatherer" }

\* gatherer.Matcher(uri): the method of the registered value
GathererMatcher(build, g, uri) ==
    CASE g = "FileGatherer" -> FileMatcher(uri)
      [] g = "GitGatherer"  -> GitMatcher(uri)
      [] g = "HTTPGatherer" -> HTTPMatcher(uri)
      [] g = "OCIGatherer"  -> OCIMatcher(build, uri)

Nil == "nil"
NoError == [ present |-> FALSE, msg |-> << >> ]
Errorf(msg) == [ present |-> TRUE, msg |-> msg ]

RECURSIVE GetExpanderLast(_, _)
GetExpanderLast(list, extension) ==
    IF list = << >> THEN Nil
    ELSE IF ExpanderMatcher(list[Len(list)], extension) THEN list[Len(list)]
    ELSE GetExpanderLast(SubSeq(list, 1, Len(list) - 1), extension)

RECURSIVE GetExpander(_, _)
\* GetExpander over the registry list
GetExpander(list, extension) ==
    IF list = << >> THEN Nil
    ELSE IF ExpanderMatcher(Head(list), extension) THEN Head(list)
    ELSE GetExpander(Tail(list), extension)

RECURSIVE GetGatherer(_, _, _)
\* GetGatherer over the registry list: the pair (gatherer, error)
GetGatherer(build, list, uri) ==
    IF list = << >>
    THEN [ out |-> Nil, err |-> Errorf(<< "n", "o", " ", "g", "a", "t", "h", "e", "r", "e", "r", " ", "f", "o", "u", "n", "d", " ", "f", "o", "r", " ", "U", "R", "I", ":", " " >> \o uri) ]
    ELSE IF GathererMatcher(build, Head(list), uri)
    THEN [ out |-> Head(list), err |-> NoError ]
    ELSE GetGatherer(build, Tail(list), uri)

\* names and extensions handed to GetExpander
ExpanderArgs ==
    { << "a", "r", "c", "h", "i", "v", "e", ".", "t", "a", "r", ".", "b", "z", "2" >>, << "s", "o", "m", "e", "t", "h", "i", "n", "g", "-", "b", "z", "i", "p", "2", ".", "t", "a", "r" >>, << "x", ".", "t", "g", "z" >>, << "x", ".", "z", "i", "p" >>, << "x", ".", "b", "z", "2" >>, << "b", "z", "i", "p", "2" >>,
      << "x", ".", "t", "x", "t" >>, << "g", "z", "i", "p" >>, << "x", ".", "b", "z", "i", "p", "2" >>, << "x", ".", "t", "b", "z", "2" >> }

\* URIs handed to GetGatherer
GathererArgs ==
    { << "h", "t", "t", "p", "s", ":", "/", "/", "e", "x", "a", "m", "p", "l", "e", ".", "c", "o", "m", "/", "s", "o", "m", "e", "p", "a", "t", "h" >>, << "h", "t", "t", "p", "s", ":", "/", "/", "g", "i", "t", "h", "u", "b", ".", "c", "o", "m", "/", "s", "o", "m", "e", "p", "a", "t", "h" >>,
      << "h", "t", "t", "p", "s", ":", "/", "/", "b", "i", "t", "b", "u", "c", "k", "e", "t", ".", "o", "r", "g", "/", "o", "r", "g", "/", "r", "e", "p", "o" >>, << "f", "i", "l", "e", ":", "/", "/", "/", "t", "m", "p", "/", "s", "o", "m", "e", "f", "i", "l", "e", ".", "t", "x", "t" >>,
      << "g", "i", "t", "@", "g", "i", "t", "h", "u", "b", ".", "c", "o", "m", ":", "o", "r", "g", "/", "r", "e", "p", "o", ".", "g", "i", "t" >>, << "o", "c", "i", ":", "/", "/", "r", "e", "g", "i", "s", "t", "r", "y", "/", "r", "e", "p", "o", "s", "i", "t", "o", "r", "y", ":", "t", "a", "g" >>,
      << "l", "o", "c", "a", "l", "h", "o", "s", "t", ":", "3", "2", "4", "3", "3", "/", "r", "e", "p", "o", "s", "i", "t", "o", "r", "y", ":", "t", "a", "g" >>, << "r", "e", "g", "i", "s", "t", "r", "y", ".", "g", "i", "t", "l", "a", "b", ".", "c", "o", "m", "/", "o", "r", "g", "/", "i", "m", "g" >>,
      << "m", "y", "r", "e", "g", "i", "s", "t", "r", "y", ".", "e", "x", "a", "m", "p", "l", "e", ".", "c", "o", "m", "/", "r", "e", "p", "o" >>, << "f", "i", "l", "e", ":", "/", "/", "/", "t", "m", "p", "/", "g", "c", "r", ".", "i", "o", "/", "x" >> }

\* URIs handed to the detectors
Uris ==
    GathererArgs
    \cup { << >>, << "h", "t", "t", "p", ":", "/", "/", "e", "x", "a", "m", "p", "l", "e", ".", "c", "o", "m", "/", "s", "o", "m", "e", "p", "a", "t", "h" >>, << "h", "t", "t", "p", "s", ":", "/", "/", "g", "i", "t", "l", "a", "b", ".", "c", "o", "m", "/", "o", "r", "g", "/", "r", "e", "p", "o" >>,
           << "h", "t", "t", "p", "s", ":", "/", "/", "e", "x", "a", "m", "p", "l", "e", ".", "c", "o", "m", "/", "r", "e", "p", "o", ".", "g", "i", "t" >>, << "g", "i", "t", ":", ":", "h", "t", "t", "p", "s", ":", "/", "/", "e", "x", "a", "m", "p", "l", "e", ".", "c", "o", "m", "/", "r", "e", "p", "o" >>,
           << "o", "c", "i", ":", ":", "r", "e", "g", "i", "s", "t", "r", "y", "/", "r", "e", "p", "o", "s", "i", "t", "o", "r", "y", ":", "t", "a", "g" >>, << "q", "u", "a", "y", ".", "i", "o", "/", "o", "r", "g", "/", "i", "m", "g", ":", "v", "1" >>,
           << "e", "x", "a", "m", "p", "l", "e", ".", "c", "o", "m", "/", "q", "u", "a", "y", ".", "i", "o", "/", "i", "m", "g" >>, << "g", "c", "r", ".", "i", "o", "/", "p", "r", "o", "j", "/", "i", "m", "g" >>, << "x", ".", "a", "z", "u", "r", "e", "c", "r", ".", "i", "o", "/", "i", "m", "g" >>,
           << "u", "s", "-", "d", "o", "c", "k", "e", "r", ".", "p", "k", "g", ".", "d", "e", "v", "/", "p", "/", "r", "/", "i", "m", "g" >>,
           << "1", "2", "3", "4", "5", "6", "7", "8", "9", "0", "1", "2", ".", "d", "k", "r", ".", "e", "c", "r", ".", "u", "s", "-", "e", "a", "s", "t", "-", "1", ".", "a", "m", "a", "z", "o", "n", "a", "w", "s", ".", "c", "o", "m", "/", "i", "m", "g" >> }

\* the result of the library call made last
\* (arg: the string argument, data: the bytes of the file argument, out: the
\* handler returned, ok: the boolean returned, err: the error returned)
Ret(fn, arg, data, out, ok, e) ==
    [ fn |-> fn, arg |-> arg, data |-> data, out |-> out, ok |-> ok, err |-> e ]

NoCall == Ret("none", << >>, << >>, Nil, FALSE, NoError)

RegisterExpanderFirst ==
    /\ Len(expanders) + Len(gatherers) < MaxRegistered
    /\ \E e \in Expanders :
         /\ expanders' = << e >> \o expanders
         /\ ret' = Ret("RegisterExpander", << >>, << >>, e, FALSE, NoError)
    /\ UNCHANGED << gatherers, ociSource, procUmask, ExpandVars,
                    GatherVars >>

\* RegisterExpander
RegisterExpander ==
    /\ Len(expanders) + Len(gatherers) < MaxRegistered
    /\ \E e \in Expanders :
         /\ expanders' = Append(expanders, e)
         /\ ret' = Ret("RegisterExpander", << >>, << >>, e, FALSE, NoError)
    /\ UNCHANGED << gatherers, ociSource, procUmask, ExpandVars,
                    GatherVars >>

\* RegisterGatherer
RegisterGatherer ==
    /\ Len(expanders) + Len(gatherers) < MaxRegistered
    /\ \E g \in Gatherers :
         /\ gatherers' = Append(gatherers, g)
         /\ ret' = Ret("RegisterGatherer", << >>, << >>, g, FALSE, NoError)
    /\ UNCHANGED << expanders, ociSource, procUmask, ExpandVars,
                    GatherVars >>

\* a call of GetExpander
GetExpanderCall ==
    /\ \E x \in ExpanderArgs :
         ret' = Ret("GetExpander", x, << >>, GetExpander(expanders, x), FALSE, NoError)
    /\ UNCHANGED << expanders, gatherers, ociSource, procUmask, ExpandVars,
                    GatherVars >>

\* a call of GetGatherer with one of the given URIs
GetGathererOf(uris) ==
    /\ \E uri \in uris :
         LET r == GetGatherer(ociSource, gatherers, uri)
         IN  ret' = Ret("GetGatherer", uri, << >>, r.out, FALSE, r.err)
    /\ UNCHANGED << expanders, gatherers, ociSource, procUmask, ExpandVars,
                    GatherVars >>

GetGathererCall == GetGathererOf(GathererArgs)

\* references without a scheme: a registry host and a repository
StockUris ==
    { host \o << "/" >> \o repository :
        host \in { << "x", ".", "a", "z", "u", "r", "e", "c", "r", ".", "i", "o" >>, << "g", "c", "r", ".", "i", "o" >>, << "r", "e", "g", "i", "s", "t", "r", "y", ".", "g", "i", "t", "l", "a", "b", ".", "c", "o", "m" >>, << "u", "s", "-", "d", "o", "c", "k", "e", "r", ".", "p", "k", "g", ".", "d", "e", "v" >>,
                   << "1", "2", "3", "4", "5", "6", "7", "8", "9", "0", "1", "2", ".", "d", "k", "r", ".", "e", "c", "r", ".", "u", "s", "-", "e", "a", "s", "t", "-", "1", ".", "a", "m", "a", "z", "o", "n", "a", "w", "s", ".", "c", "o", "m" >>, << "q", "u", "a", "y", ".", "i", "o" >>,
                   << "l", "o", "c", "a", "l", "h", "o", "s", "t", ":", "5", "0", "0", "0" >>, << "1", "2", "7", ".", "0", ".", "0", ".", "1", ":", "5", "0", "0", "0" >>, << "L", "O", "C", "A", "L", "H", "O", "S", "T", ":", "8", "0" >>, << "d", "o", "c", "k", "e", "r", ".", "i", "o" >> },
        repository \in { << "r", "e", "p", "o", ":", "t", "a", "g" >>, << "o", "r", "g", "/", "i", "m", "a", "g", "e", ":", "t", "a", "g" >>, << "o", "r", "g", "/", "i", "m", "a", "g", "e" >>, << "o", "r", "g", "/", "r", "e", "p", "o", ".", "g", "i", "t" >> } }

\* internal/oci/registry: GetGatherer of a program that imports the package
StockLookup == GetGathererOf(StockUris \cup Uris)

\* FileDetector, GitDetector, HttpDetector, OciDetector: the Matcher of a
\* fresh gatherer value
Detector ==
    /\ \E uri \in Uris :
         \E d \in { [ fn |-> "FileDetector", out |-> FileMatcher(uri) ],
                    [ fn |-> "GitDetector",  out |-> GitMatcher(uri) ],
                    [ fn |-> "HttpDetector", out |-> HTTPMatcher(uri) ],
                    [ fn |-> "OciDetector",  out |-> OCIMatcher(ociSource, uri) ] } :
            ret' = Ret(d.fn, uri, << >>, Nil, d.out, NoError)
    /\ UNCHANGED << expanders, gatherers, ociSource, procUmask, ExpandVars,
                    GatherVars >>

\* magicNumbers: gzip, zip, bzip2, xz, 7z
HeaderLen == 10
magicNumbers ==
    { << 31, 139 >>, << 80, 75, 3, 4 >>, << 66, 90, 104 >>,
      << 253, 55, 122, 88, 90, 0 >>, << 55, 122, 188, 175, 39, 28 >> }

\* make([]byte, n)
MakeBytes(n) == [ j \in 1..n |-> 0 ]

\* file.Read(buf) at offset off of a regular file: the bytes the file holds from
\* off on overwrite the head of buf, the rest of buf is left as it was
ReadAt(buf, data, off) ==
    [ j \in 1..Len(buf) |-> IF off + j <= Len(data) THEN data[off + j] ELSE buf[j] ]

\* the count that Read returns
ReadCount(buf, data, off) ==
    IF Len(data) <= off THEN 0 ELSE Min(Len(buf), Len(data) - off)

\* IsCompressedFile: the pair (bool, error)
IsCompressedFile(file) ==
    IF ~file.exists THEN [ ok |-> FALSE, err |-> Errorf(<< "c", "o", "u", "l", "d", " ", "n", "o", "t", " ", "o", "p", "e", "n", " ", "f", "i", "l", "e" >>) ]
    ELSE IF ReadCount(MakeBytes(HeaderLen), file.data, 0) = 0
    THEN [ ok |-> FALSE, err |-> NoError ]      \* Read returns io.EOF
    ELSE LET header == ReadAt(MakeBytes(HeaderLen), file.data, 0)
         IN  [ ok  |-> \E magic \in magicNumbers :
                          /\ Len(header) >= Len(magic)
                          /\ SubSeq(header, 1, Len(magic)) = magic,
               err |-> NoError ]

TarMagicOffset == 257
TarMagicLen    == 6
Ustar == << 117, 115, 116, 97, 114 >>       \* "ustar"

\* IsTarFile: the pair (bool, error)
IsTarFile(file) ==
    IF ~file.exists THEN [ ok |-> FALSE, err |-> Errorf(<< "c", "o", "u", "l", "d", " ", "n", "o", "t", " ", "o", "p", "e", "n", " ", "f", "i", "l", "e" >>) ]
    ELSE LET magic == ReadAt(MakeBytes(TarMagicLen), file.data, TarMagicOffset)
             n     == ReadCount(MakeBytes(TarMagicLen), file.data, TarMagicOffset)
         IN  IF n < TarMagicLen THEN [ ok |-> FALSE, err |-> NoError ]
             ELSE [ ok |-> HasPrefix(magic, Ustar), err |-> NoError ]

\* files handed to the sniffers
MissingFile == [ exists |-> FALSE, data |-> << >> ]
OnDisk(data) == [ exists |-> TRUE, data |-> data ]

\* a file of len bytes, zero but for the six bytes at the tar magic offset
TarImage(len, six) ==
    [ j \in 1..len |-> IF j > TarMagicOffset /\ j <= TarMagicOffset + TarMagicLen
                       THEN six[j - TarMagicOffset] ELSE 0 ]

SniffFiles ==
    { MissingFile, OnDisk(<< >>), OnDisk(<< 104, 105 >>) }
    \cup { OnDisk(magic) : magic \in magicNumbers }
    \cup { OnDisk(magic \o << 7 >>) : magic \in magicNumbers }
    \cup { OnDisk(SubSeq(magic, 1, Len(magic) - 1)) : magic \in magicNumbers }
    \cup { OnDisk(TarImage(len, Ustar \o << c >>)) :
             len \in { 262, 263, 300 }, c \in { 0, 32, 48, 88 } }
    \cup { OnDisk(TarImage(300, << 117, 115, 116, 97, 120, 0 >>)) }

\* a call of IsCompressedFile
IsCompressedFileCall ==
    /\ \E file \in SniffFiles :
         LET r == IsCompressedFile(file)
         IN  ret' = Ret("IsCompressedFile", << >>, file.data, Nil, r.ok, r.err)
    /\ UNCHANGED << expanders, gatherers, ociSource, procUmask, ExpandVars,
                    GatherVars >>

\* a call of IsTarFile
IsTarFileCall ==
    /\ \E file \in SniffFiles :
         LET r == IsTarFile(file)
         IN  ret' = Ret("IsTarFile", << >>, file.data, Nil, r.ok, r.err)
    /\ UNCHANGED << expanders, gatherers, ociSource, procUmask, ExpandVars,
                    GatherVars >>

\* no handler registered, no call made
\* the registry after the init functions of the packages that
\* internal/oci/registry imports, in the order of the imports
StockGatherers == << "FileGatherer", "GitGatherer", "HTTPGatherer", "OCIGatherer" >>

RegistryInit ==
    /\ expanders = << >> /\ gatherers = << >>
    /\ ociSource \in OciSources
    /\ ret = NoCall /\ procUmask = 0

----------------------------------------------------------------------------
(* gather: the Gather calls of the Git, OCI, HTTP and File gatherers *)

\* strings.TrimPrefix
TrimPrefix(s, prefix) ==
    IF HasPrefix(s, prefix) THEN SubSeq(s, Len(prefix) + 1, Len(s)) ELSE s

\* strings.Index, counted from 1 (0: sub does not occur)
Index(s, sub) ==
    LET at == { i \in 1..(Len(s) - Len(sub) + 1) : SubSeq(s, i, i + Len(sub) - 1) = sub }
    IN  IF at = { } THEN 0 ELSE CHOOSE i \in at : \A j \in at : i <= j

\* what precedes and what follows the first occurrence of sep in s
Before(s, sep) == SubSeq(s, 1, Index(s, sep) - 1)
After(s, sep)  == SubSeq(s, Index(s, sep) + Len(sep), Len(s))

RECURSIVE ReplaceAll(_, _, _)
\* strings.ReplaceAll
ReplaceAll(s, old, new) ==
    IF Len(s) < Len(old) THEN s
    ELSE IF HasPrefix(s, old)
    THEN new \o ReplaceAll(SubSeq(s, Len(old) + 1, Len(s)), old, new)
    ELSE << s[1] >> \o ReplaceAll(Tail(s), old, new)

RECURSIVE TrimPrefixes(_, _)
\* for _, prefix := range terms { s = strings.TrimPrefix(s, prefix) }
TrimPrefixes(s, terms) ==
    IF terms = << >> THEN s
    ELSE TrimPrefixes(TrimPrefix(s, Head(terms)), Tail(terms))

(* OCIGatherer *)

\* ociURLParse
ociURLParse(source) ==
    LET s == IF Contains(source, << ":", ":" >>)
             THEN LET rest == After(source, << ":", ":" >>)       \* strings.Split(source, "::")[1]
                  IN  IF Contains(rest, << ":", ":" >>) THEN Before(rest, << ":", ":" >>) ELSE rest
             ELSE source
    IN  IF Contains(s, << ":", "/", "/" >>) THEN After(s, << ":", "/", "/" >>) ELSE s   \* strings.Cut

\* registry.ParseReference: registry "/" repository [ ":" tag | "@" digest ]
ParseReference(artifact) ==
    IF ~Contains(artifact, << "/" >>)
    THEN [ ok |-> FALSE, registry |-> << >>, repository |-> << >>, reference |-> << >>,
           isTag |-> FALSE ]
    ELSE LET registry == Before(artifact, << "/" >>)
             path     == After(artifact, << "/" >>)
         IN  IF Contains(path, << "@" >>)
             THEN LET named == Before(path, << "@" >>)
                  IN  [ ok |-> TRUE, registry |-> registry,
                        repository |-> IF Contains(named, << ":" >>) THEN Before(named, << ":" >>)
                                       ELSE named,
                        reference |-> After(path, << "@" >>), isTag |-> FALSE ]
             ELSE IF Contains(path, << ":" >>)
             THEN [ ok |-> TRUE, registry |-> registry, repository |-> Before(path, << ":" >>),
                    reference |-> After(path, << ":" >>), isTag |-> TRUE ]
             ELSE [ ok |-> TRUE, registry |-> registry, repository |-> path,
                    reference |-> << >>, isTag |-> FALSE ]

\* Reference.String
ReferenceString(r) ==
    r.registry \o << "/" >> \o r.repository
    \o (IF r.reference = << >> THEN << >>
        ELSE (IF r.isTag THEN << ":" >> ELSE << "@" >>) \o r.reference)

\* OCIGatherer.Gather up to the pull: the reference handed to orasCopy
\* (ok = FALSE: ParseReference fails)
OciPullReference(raw) ==
    LET source == IF Contains(raw, << "l", "o", "c", "a", "l", "h", "o", "s", "t" >>)
                  THEN ReplaceAll(raw, << "l", "o", "c", "a", "l", "h", "o", "s", "t" >>, << "1", "2", "7", ".", "0", ".", "0", ".", "1" >>)
                  ELSE raw
        parsed == ociURLParse(source)
        r      == ParseReference(parsed)
    IN  IF ~r.ok THEN [ ok |-> FALSE, repo |-> parsed ]
        ELSE IF r.reference = << >>
        THEN [ ok |-> TRUE, repo |-> ReferenceString([ r EXCEPT !.reference = << "l", "a", "t", "e", "s", "t" >>,
                                                                !.isTag = TRUE ]) ]
        ELSE [ ok |-> TRUE, repo |-> parsed ]

\* sources of the OCI gatherer: marker, host localhost with a port, repository
\* path, tag (empty: none given)
OciParts ==
    [ marker : { << "o", "c", "i", ":", "/", "/" >>, << "o", "c", "i", ":", ":" >> },
      port   : { << "5", "0", "0", "0" >> },
      repo   : { << "m", "y", "r", "e", "p", "o" >>, << "t", "e", "a", "m", "/", "a", "p", "p" >>, << "l", "o", "c", "a", "l", "h", "o", "s", "t", "/", "a", "p", "p" >> },
      tag    : { << >>, << "v", "1" >> } ]

OciSourceOf(p) ==
    p.marker \o << "l", "o", "c", "a", "l", "h", "o", "s", "t", ":" >> \o p.port \o << "/" >> \o p.repo
    \o (IF p.tag = << >> THEN << >> ELSE << ":" >> \o p.tag)

OciGatherSources == { OciSourceOf(p) : p \in OciParts } \cup { << "o", "c", "i", ":", "/", "/", "r", "e", "g", "i", "s", "t", "r", "y" >> }

(* GitGatherer: processUrl *)

\* filePathPattern: ^(\./|\../|/|[a-zA-Z]:\\|~\/).*
Letters == Lower \cup { "A", "B", "C", "D", "E", "F", "G", "H", "I", "J", "K", "L", "M",
                        "N", "O", "P", "Q", "R", "S", "T", "U", "V", "W", "X", "Y", "Z" }

filePathPattern(s) ==
    \/ HasPrefix(s, << ".", "/" >>)
    \/ Len(s) >= 3 /\ s[1] = "." /\ s[3] = "/"
    \/ HasPrefix(s, << "/" >>)
    \/ Len(s) >= 3 /\ s[1] \in Letters /\ s[2] = ":" /\ s[3] = "\\"
    \/ HasPrefix(s, << "~", "/" >>)

\* the prefixes processUrl removes, in the order it removes them
processUrlTerms == << << "g", "i", "t", "@" >>, << "g", "i", "t", ":", "/", "/" >>, << "g", "i", "t", ":", ":" >>, << "h", "t", "t", "p", "s", ":", "/", "/" >>, << "f", "i", "l", "e", ":", "/", "/" >>, << "f", "i", "l", "e", ":", ":" >> >>

\* processUrl up to giturls.Parse: the source handed to the parser
processUrlSource(raw) ==
    LET stripped == TrimPrefixes(raw, processUrlTerms)
        filed    == IF filePathPattern(stripped) THEN << "f", "i", "l", "e", ":", "/", "/" >> \o stripped ELSE stripped
    IN  IF ~HasPrefix(filed, << "g", "i", "t", "@" >>) /\ ~HasPrefix(filed, << "f", "i", "l", "e", ":", "/", "/" >>)
        THEN << "h", "t", "t", "p", "s", ":", "/", "/" >> \o filed
        ELSE filed

\* url.Parse on scheme://host/path?query: the parts of the URL
ParseUrl(s) ==
    LET rest     == After(s, << ":", "/", "/" >>)
        hostpath == IF Contains(rest, << "?" >>) THEN Before(rest, << "?" >>) ELSE rest
    IN  [ scheme |-> Before(s, << ":", "/", "/" >>),
          host   |-> IF Contains(hostpath, << "/" >>) THEN Before(hostpath, << "/" >>) ELSE hostpath,
          path   |-> IF Contains(hostpath, << "/" >>) THEN << "/" >> \o After(hostpath, << "/" >>) ELSE << >>,
          query  |-> IF Contains(rest, << "?" >>) THEN After(rest, << "?" >>) ELSE << >> ]

\* URL.String
UrlString(u) ==
    u.scheme \o << ":", "/", "/" >> \o u.host
    \o (IF u.path # << >> /\ u.path[1] # "/" /\ u.host # << >> THEN << "/" >> ELSE << >>)
    \o u.path
    \o (IF u.query = << >> THEN << >> ELSE << "?" >> \o u.query)

\* a host the URL parsers accept: no user, and no port but a numeric one
ValidHost(h) ==
    /\ ~Contains(h, << "@" >>)
    /\ Contains(h, << ":" >>) => \A i \in 1..Len(After(h, << ":" >>)) : After(h, << ":" >>)[i] \in Digits

RECURSIVE QueryGet(_, _)
\* url.Values.Get
QueryGet(query, key) ==
    IF query = << >> THEN << >>
    ELSE LET pair == IF Contains(query, << "&" >>) THEN Before(query, << "&" >>) ELSE query
             rest == IF Contains(query, << "&" >>) THEN After(query, << "&" >>) ELSE << >>
         IN  IF HasPrefix(pair, key \o << "=" >>) THEN After(pair, << "=" >>)
             ELSE QueryGet(rest, key)

RECURSIVE QueryDel(_, _)
\* url.Values.Del, then Encode
QueryDel(query, key) ==
    IF query = << >> THEN << >>
    ELSE LET pair == IF Contains(query, << "&" >>) THEN Before(query, << "&" >>) ELSE query
             rest == QueryDel(IF Contains(query, << "&" >>) THEN After(query, << "&" >>) ELSE << >>, key)
         IN  IF HasPrefix(pair, key \o << "=" >>) THEN rest
             ELSE IF rest = << >> THEN pair ELSE pair \o << "&" >> \o rest

\* extractKeyFromQuery: the value returned, and the subdir it leaves
extractKeyFromQuery(query, key, sub) ==
    LET value == QueryGet(query, key)
    IN  IF Contains(value, << "/", "/" >>)
        THEN [ value |-> Before(value, << "/", "/" >>), subdir |-> After(value, << "/", "/" >>) ]
        ELSE [ value |-> value, subdir |-> sub ]

\* processUrl once the parsers returned u; parse is the source they were handed
processUrlParsed(source, u) ==
    LET r     == extractKeyFromQuery(u.query, << "r", "e", "f" >>, << >>)
        d     == extractKeyFromQuery(u.query, << "d", "e", "p", "t", "h" >>, r.subdir)
        split == Contains(u.path, << "/", "/" >>)
        path  == IF split THEN Before(u.path, << "/", "/" >>) ELSE u.path
        git   == IF ~HasSuffix(path, << ".", "g", "i", "t" >>) /\ ~HasPrefix(source, << "f", "i", "l", "e", ":", "/", "/" >>)
                 THEN path \o << ".", "g", "i", "t" >> ELSE path
    IN  [ err    |-> FALSE,
          parse  |-> source,
          src    |-> UrlString([ u EXCEPT !.path = git,
                                          !.query = QueryDel(QueryDel(u.query, << "r", "e", "f" >>), << "d", "e", "p", "t", "h" >>) ]),
          ref    |-> r.value,
          subdir |-> IF split THEN After(u.path, << "/", "/" >>) ELSE d.subdir,
          depth  |-> d.value ]

\* processUrl: what it can return. giturls.Parse is not part of the sources:
\* on a source that is no scheme://host[:port]/path it either fails or returns
\* some URL, of which nothing but its being a URL is used
processUrl(raw) ==
    LET source == processUrlSource(raw)
    IN  IF Contains(source, << ":", "/", "/" >>) /\ ValidHost(ParseUrl(source).host)
        THEN { processUrlParsed(source, ParseUrl(source)) }
        ELSE { [ err |-> e, parse |-> source, src |-> source, ref |-> << >>,
                 subdir |-> << >>, depth |-> << >> ] : e \in BOOLEAN }

\* sources of the Git gatherer: SSH forms, forced schemes, subdirectories in
\* the path and in ref, depth, a ref and subdirectories the repository lacks,
\* a subdirectory that is a file, http, local paths
GitSources ==
    { << "g", "i", "t", "@", "g", "i", "t", "h", "u", "b", ".", "c", "o", "m", ":", "o", "r", "g", "/", "r", "e", "p", "o", ".", "g", "i", "t" >>, << "a", "l", "i", "c", "e", "@", "h", "o", "s", "t", ":", "o", "r", "g", "/", "r", "e", "p", "o", ".", "g", "i", "t" >>,
      << "g", "i", "t", ":", ":", "g", "i", "t", "@", "g", "i", "t", "h", "u", "b", ".", "c", "o", "m", ":", "o", "r", "g", "/", "r", "e", "p", "o", ".", "g", "i", "t" >>, << "g", "i", "t", ":", ":", "g", "i", "t", "h", "u", "b", ".", "c", "o", "m", "/", "o", "r", "g", "/", "r", "e", "p", "o" >>,
      << "g", "i", "t", ":", ":", "g", "i", "t", "h", "u", "b", ".", "c", "o", "m", "/", "o", "r", "g", "/", "r", "e", "p", "o", "/", "/", "s", "u", "b", "?", "r", "e", "f", "=", "m", "a", "i", "n" >>, << "g", "i", "t", "h", "u", "b", ".", "c", "o", "m", "/", "o", "r", "g", "/", "r", "e", "p", "o", "?", "r", "e", "f", "=", "m", "a", "i", "n", "/", "/", "s", "u", "b", "/", "l", "i", "b" >>,
      << "g", "i", "t", "h", "u", "b", ".", "c", "o", "m", "/", "o", "r", "g", "/", "r", "e", "p", "o", "?", "d", "e", "p", "t", "h", "=", "1", "/", "/", "s", "u", "b" >>, << "g", "i", "t", "h", "u", "b", ".", "c", "o", "m", "/", "o", "r", "g", "/", "r", "e", "p", "o", "?", "d", "e", "p", "t", "h", "=", "x" >>,
      << "h", "t", "t", "p", "s", ":", "/", "/", "g", "i", "t", "h", "u", "b", ".", "c", "o", "m", "/", "o", "r", "g", "/", "r", "e", "p", "o", ".", "g", "i", "t", "/", "/", "n", "o", "p", "e" >>, << "g", "i", "t", "h", "u", "b", ".", "c", "o", "m", "/", "o", "r", "g", "/", "r", "e", "p", "o", "/", "/", "R", "E", "A", "D", "M", "E", ".", "m", "d" >>,
      << "g", "i", "t", "h", "u", "b", ".", "c", "o", "m", "/", "o", "r", "g", "/", "r", "e", "p", "o", "?", "r", "e", "f", "=", "g", "o", "n", "e", "/", "/", "s", "u", "b" >>, << "h", "t", "t", "p", ":", "/", "/", "e", "x", "a", "m", "p", "l", "e", ".", "c", "o", "m", "/", "r", "e", "p", "o", ".", "g", "i", "t" >>,
      << "/", "s", "r", "v", "/", "r", "e", "p", "o" >>, << "f", "i", "l", "e", ":", "/", "/", "/", "s", "r", "v", "/", "r", "e", "p", "o", "/", "/", "s", "u", "b" >> }

(* the Gather calls *)

\* mutant: the context is never found canceled
ctxErrNil(done) == "nil"

\* ctx.Err()
ctxErr(done) == IF done THEN "context canceled" ELSE "nil"

\* p lies below root
Beneath(p, root) == HasPrefix(p, root \o << Sep >>)

\* mutant: the scratch directory is left behind
RemoveAllNothing(f, root) == f

\* os.RemoveAll
RemoveAll(f, root) ==
    [ p \in { q \in DOMAIN f : q # root /\ ~Beneath(q, root) } |-> f[p] ]

\* helpers.ExpandPath: what it can return (os.UserHomeDir may fail)
Home == << "/", "h", "o", "m", "e", "/", "u" >>
ExpandPath(path) ==
    IF HasPrefix(path, << "~" >>)
    THEN { [ ok |-> FALSE, path |-> << >> ],
           [ ok |-> TRUE,  path |-> Join(Home, SubSeq(path, 2, Len(path))) ] }
    ELSE { [ ok |-> TRUE, path |-> path ] }

\* the repository every clone URL serves: the worktree of a non-bare clone, in
\* the order os.ReadDir walks it
Worktree ==
    << [ name |-> << ".", "g", "i", "t" >>,           kind |-> "dir"  ],
       [ name |-> << "R", "E", "A", "D", "M", "E", ".", "m", "d" >>,      kind |-> "file" ],
       [ name |-> << "o", "t", "h", "e", "r" >>,          kind |-> "dir"  ],
       [ name |-> << "o", "t", "h", "e", "r", "/", "c" >>,        kind |-> "file" ],
       [ name |-> << "s", "u", "b" >>,            kind |-> "dir"  ],
       [ name |-> << "s", "u", "b", "/", "a", ".", "r", "e", "g", "o" >>,     kind |-> "file" ],
       [ name |-> << "s", "u", "b", "/", "l", "i", "b" >>,        kind |-> "dir"  ],
       [ name |-> << "s", "u", "b", "/", "l", "i", "b", "/", "b", ".", "r", "e", "g", "o" >>, kind |-> "file" ] >>

\* w.Filesystem.Stat
InWorktree(name) == \E i \in 1..Len(Worktree) : Worktree[i].name = Clean(name)

\* git.PlainCloneContext refuses a directory that holds a repository
CloneRefused(f, dir) == Join(dir, << ".", "g", "i", "t" >>) \in DOMAIN f

\* a clone that failed on the way: the directory with the repository
\* metadata begun in it
ClonePartial(f, dir) ==
    LET made == MkdirAll(f, dir, DefaultDirMode)
    IN  [ p \in DOMAIN made \cup { Join(dir, << ".", "g", "i", "t" >>) } |->
            IF p \in DOMAIN made THEN made[p] ELSE NewDir(DefaultDirMode) ]

\* git.PlainCloneContext(ctx, dir, false, cloneOpts), succeeded
Clone(f, dir) ==
    LET made  == MkdirAll(f, dir, DefaultDirMode)
        files == { i \in 1..Len(Worktree) : TRUE }
        at(i) == Join(dir, Worktree[i].name)
    IN  [ p \in DOMAIN made \cup { at(i) : i \in files } |->
            IF \E i \in files : at(i) = p
            THEN IF Worktree[CHOOSE i \in files : at(i) = p].kind = "dir"
                 THEN NewDir(DefaultDirMode)
                 ELSE [ NewFile(Bz2FileMode) EXCEPT !.size = 1 ]
            ELSE made[p] ]

\* os.ReadDir, recursively: what lies below from, in the order copyDir meets
\* it; tree lists the names below root in that order
CopyList(f, tree, root, from) ==
    SelectSeq([ i \in 1..Len(tree) |-> Join(root, tree[i].name) ],
              LAMBDA p : p \in DOMAIN f /\ Beneath(p, from))

\* copyDir and copyFile on one entry p of from: [ok, fs]
CopyEntry(f, from, to, p) ==
    LET target == Join(to, SubSeq(p, Len(from) + 2, Len(p)))
    IN  IF f[p].kind = "dir"
        THEN IF target \in DOMAIN f THEN [ ok |-> TRUE, fs |-> f ]
             ELSE IF MkdirAllOk(f, target)
             THEN [ ok |-> TRUE, fs |-> MkdirAll(f, target, f[p].mode) ]
             ELSE [ ok |-> FALSE, fs |-> f ]
        ELSE IF OpenFileOk(f, target)
        THEN [ ok |-> TRUE,
               fs |-> [ OpenFile(f, target, f[p].mode)
                          EXCEPT ![target].size = f[p].size, ![target].mode = f[p].mode ] ]
        ELSE [ ok |-> FALSE, fs |-> f ]

RECURSIVE CopyEntries(_, _, _, _, _)
\* the loop of copyDir over list, an I/O error striking after limit entries
CopyEntries(f, from, to, list, limit) ==
    IF list = << >> THEN [ ok |-> TRUE, fs |-> f ]
    ELSE IF limit = 0 THEN [ ok |-> FALSE, fs |-> f ]
    ELSE LET one == CopyEntry(f, from, to, Head(list))
         IN  IF ~one.ok THEN one
             ELSE CopyEntries(one.fs, from, to, Tail(list), limit - 1)

\* copyDir(from, to), and helpers.CopyDir: [ok, fs]
copyDir(f, tree, root, from, to, limit) ==
    LET source == Clean(from)
        target == Clean(to)
    IN  IF source \notin DOMAIN f \/ f[source].kind # "dir"
        THEN [ ok |-> FALSE, fs |-> f ]
        ELSE IF target \notin DOMAIN f /\ ~MkdirAllOk(f, target)
        THEN [ ok |-> FALSE, fs |-> f ]
        ELSE CopyEntries(IF target \in DOMAIN f THEN f
                         ELSE MkdirAll(f, target, f[source].mode),
                         source, target, CopyList(f, tree, root, source), limit)

MaxCalls == 1       \* Gather calls in one behaviour

TempMode == 448     \* os.MkdirTemp creates the directory with mode 0700
ModePerm == 511     \* os.ModePerm

\* the names os.MkdirTemp("", "git-repo-") can draw
TempNames == { << "/", "t", "m", "p", "/", "g", "i", "t", "-", "r", "e", "p", "o", "-", "1" >>, << "/", "t", "m", "p", "/", "g", "i", "t", "-", "r", "e", "p", "o", "-", "2" >> }

\* destinations handed to Gather
DstWork    == << "/", "w", "o", "r", "k", "/", "d", "s", "t" >>
GatherDsts == { DstWork, << "/", "w", "o", "r", "k", "/", "o", "u", "t", ".", "r", "e", "g", "o" >> }

\* what the machine holds besides the destination: the directory /data with
\* its files, in the order os.ReadDir walks it, and the bytes of the files
DataRoot == << "/", "d", "a", "t", "a" >>
DataTree ==
    << [ name |-> << "a", ".", "r", "e", "g", "o" >>,           kind |-> "file" ],
       [ name |-> << "p", "o", "l", "i", "c", "y" >>,           kind |-> "dir"  ],
       [ name |-> << "p", "o", "l", "i", "c", "y", "/", "m", "a", "i", "n", ".", "r", "e", "g", "o" >>, kind |-> "file" ],
       [ name |-> << "x", ".", "b", "z", "2" >>,            kind |-> "file" ],
       [ name |-> << "x", ".", "t", "a", "r" >>,            kind |-> "file" ],
       [ name |-> << "x", ".", "t", "g", "z" >>,            kind |-> "file" ] >>

\* what the files hold: a gzip stream, a bzip2 stream, a tar archive that
\* begins with the name of its first entry, text
FileData(p) ==
    IF p = << "/", "d", "a", "t", "a", "/", "x", ".", "t", "g", "z" >> THEN << 31, 139, 8, 0 >>
    ELSE IF p = << "/", "d", "a", "t", "a", "/", "x", ".", "b", "z", "2" >> THEN << 66, 90, 104, 57 >>
    ELSE IF p = << "/", "d", "a", "t", "a", "/", "x", ".", "t", "a", "r" >> THEN << 102, 0, 0, 0 >>
    ELSE << 104, 105 >>

BaseDisk ==
    LET dirs == { << "/", "w", "o", "r", "k" >>, << "/", "t", "m", "p" >>, << "/", "d", "a", "t", "a" >>, << "/", "h", "o", "m", "e" >>, << "/", "h", "o", "m", "e", "/", "u" >> }
        at(i) == Join(DataRoot, DataTree[i].name)
    IN  [ p \in dirs \cup { at(i) : i \in 1..Len(DataTree) } |->
            IF p \in dirs THEN NewDir(DefaultDirMode)
            ELSE LET e == DataTree[CHOOSE i \in 1..Len(DataTree) : at(i) = p]
                 IN  IF e.kind = "dir" THEN NewDir(DefaultDirMode)
                     ELSE [ NewFile(Bz2FileMode) EXCEPT !.size = Len(FileData(p)) ] ]

\* the destination holds a file already, and a scratch directory of an
\* earlier process is still there
UsedDisk ==
    [ p \in DOMAIN BaseDisk \cup { << "/", "w", "o", "r", "k", "/", "d", "s", "t" >>, << "/", "w", "o", "r", "k", "/", "d", "s", "t", "/", "o", "l", "d" >>, << "/", "t", "m", "p", "/", "g", "i", "t", "-", "r", "e", "p", "o", "-", "1" >> } |->
        IF p \in DOMAIN BaseDisk THEN BaseDisk[p]
        ELSE IF p = << "/", "w", "o", "r", "k", "/", "d", "s", "t", "/", "o", "l", "d" >> THEN NewFile(Bz2FileMode)
        ELSE NewDir(DefaultDirMode) ]

NoProcessed ==
    [ err |-> FALSE, parse |-> << >>, src |-> << >>, ref |-> << >>, subdir |-> << >>,
      depth |-> << >> ]

\* the metadata fields of the gatherer values, as constructed
NoStored ==
    [ oci  |-> [ Path |-> << >>, Digest |-> << >> ],
      http |-> [ URI |-> << >>, Path |-> << >>, ResponseCode |-> 0, Size |-> 0 ],
      file |-> [ Path |-> << >>, Size |-> 0 ] ]

NoResult == [ m |-> "none", err |-> "none" ]

\* the metadata a caller holds or expects, whatever the gatherer
Meta(path, size, digest, uri) ==
    [ Path |-> path, Size |-> size, Digest |-> digest, URI |-> uri ]

NoMeta == Meta(<< >>, 0, << >>, << >>)

\* two goroutines, none of them in a call
Callers == { 1, 2 }
NoCallers ==
    [ c \in Callers |->
        [ pc |-> "idle", g |-> "none", late |-> FALSE, at |-> 0, own |-> NoMeta,
          m |-> [ kind |-> "none", val |-> NoMeta ] ] ]

\* no Gather call was made
GatherIdle ==
    /\ gatherer = "none" /\ ctxDone = FALSE
    /\ processed = NoProcessed /\ repo = << >> /\ tmpDir = << >>
    /\ started = { } /\ stored = NoStored /\ result = NoResult
    /\ calls = 0 /\ callers = NoCallers

\* a backend operation and what it works on
Backend(op, at) == [ op |-> op, at |-> at ]

\* a call Gather(ctx, s, d) of gatherer g is made, ctx canceled or not
Enter(g, s, d, done) ==
    /\ pc \in { "idle", "returned" }
    /\ calls < MaxCalls
    /\ calls' = calls + 1
    /\ gatherer' = g /\ src' = s /\ dst' = d /\ ctxDone' = done

\* return m, err
Return(m, e) ==
    /\ pc' = "returned"
    /\ result' = [ m |-> m, err |-> e ]

\* return nil, err before anything was done
ReturnAtOnce(e) ==
    /\ Return("nil", e)
    /\ started' = { }
    /\ UNCHANGED << fs, stored >>

(* GitGatherer.Gather *)

\* strconv.Atoi succeeds
IsNumber(s) == s # << >> /\ \A i \in 1..Len(s) : s[i] \in Digits

\* return m, err from GitGatherer.Gather once the clone was directed: the
\* deferred os.RemoveAll(tmpDir) runs
GitReturn(f, m, e) ==
    /\ Return(m, e)
    /\ fs' = IF tmpDir # << >> THEN RemoveAll(f, tmpDir) ELSE f

\* where the clone goes
CloneDir == IF processed.subdir # << >> THEN tmpDir ELSE dst

\* Gather up to the call of git.PlainCloneContext
GitGather ==
    /\ \E s \in GitSources, done \in BOOLEAN :
         /\ Enter("git", s, DstWork, done)
         /\ IF ctxErr(done) # "nil"
            THEN /\ ReturnAtOnce(ctxErr(done))
                 /\ processed' = NoProcessed /\ tmpDir' = << >>
            ELSE \E o \in processUrl(s) :
                   /\ processed' = o
                   /\ IF o.err
                      THEN ReturnAtOnce("failed to process URL") /\ tmpDir' = << >>
                      ELSE IF o.depth # << >> /\ ~IsNumber(o.depth)
                      THEN ReturnAtOnce("failed to parse depth") /\ tmpDir' = << >>
                      ELSE IF o.subdir # << >>
                      THEN \/ ReturnAtOnce("error creating temporary directory")
                              /\ tmpDir' = << >>
                           \/ \E t \in TempNames \ DOMAIN fs :
                                /\ tmpDir' = t
                                /\ fs' = MkdirAll(fs, t, TempMode)
                                /\ started' = { Backend("clone", t) }
                                /\ pc' = "clone" /\ result' = NoResult
                                /\ UNCHANGED stored
                      ELSE /\ tmpDir' = << >>
                           /\ started' = { Backend("clone", DstWork) }
                           /\ pc' = "clone" /\ result' = NoResult
                           /\ UNCHANGED << fs, stored >>
    /\ UNCHANGED << repo, ExpandLocals, LibVars, callers >>

GitFrame ==
    UNCHANGED << src, dst, gatherer, ctxDone, processed, repo, tmpDir, stored, calls,
                 ExpandLocals, LibVars, callers >>

\* git.PlainCloneContext returns
GitClone ==
    /\ gatherer = "git" /\ pc = "clone"
    /\ \/ \E left \in { fs, ClonePartial(fs, CloneDir) } :
            GitReturn(left, "nil", "error cloning repository")
       \/ /\ ~CloneRefused(fs, CloneDir)
          /\ MkdirAllOk(fs, CloneDir)
          /\ fs' = Clone(fs, CloneDir)
          /\ pc' = IF processed.ref # << >> THEN "checkout"
                   ELSE IF processed.subdir # << >> THEN "subdir"
                   ELSE "head"
          /\ UNCHANGED result
    /\ UNCHANGED started
    /\ GitFrame

\* if ref != "": ResolveRevision, Worktree, Checkout
GitCheckout ==
    /\ gatherer = "git" /\ pc = "checkout"
    /\ IF processed.ref # << "m", "a", "i", "n" >>      \* r.ResolveRevision knows main only
       THEN GitReturn(fs, "nil", "error resolving ref")
       ELSE \/ \E e \in { "error getting worktree", "error checking out ref" } :
                 GitReturn(fs, "nil", e)
            \/ /\ pc' = IF processed.subdir # << >> THEN "subdir" ELSE "head"
               /\ UNCHANGED << fs, result >>
    /\ UNCHANGED started
    /\ GitFrame

\* if subdir != "": Worktree, Stat, copyDir
GitSubdir ==
    /\ gatherer = "git" /\ pc = "subdir"
    /\ \/ GitReturn(fs, "nil", "error getting worktree") /\ UNCHANGED started
       \/ IF ~InWorktree(processed.subdir)
          THEN GitReturn(fs, "nil", "path does not exist in the repository")
               /\ UNCHANGED started
          ELSE \E limit \in 0..Len(Worktree) :
                 LET copied == copyDir(fs, Worktree, tmpDir,
                                       Join(tmpDir, processed.subdir), dst, limit)
                 IN  /\ started' = started \cup { Backend("copy", dst) }
                     /\ IF copied.ok
                        THEN fs' = copied.fs /\ pc' = "head" /\ UNCHANGED result
                        ELSE GitReturn(copied.fs, "nil", "error copying directory")
    /\ GitFrame

\* r.Head() and the return of the metadata
GitHead ==
    /\ gatherer = "git" /\ pc = "head"
    /\ \/ GitReturn(fs, "nil", "determining the HEAD reference")
       \/ GitReturn(fs, "GitMetadata", "nil")
    /\ UNCHANGED started
    /\ GitFrame

(* OCIGatherer.Gather *)

\* what the artifact every registry serves unpacks to
OciFile   == << "p", "o", "l", "i", "c", "y", ".", "r", "e", "g", "o" >>

\* Gather up to the call of orasCopy
OciGather ==
    /\ \E s \in OciGatherSources, done \in BOOLEAN :
         /\ Enter("oci", s, DstWork, done)
         /\ IF ctxErr(done) # "nil"
            THEN ReturnAtOnce(ctxErr(done)) /\ repo' = << >>
            ELSE LET r == OciPullReference(s)
                 IN  IF ~r.ok
                     THEN ReturnAtOnce("failed to parse reference") /\ repo' = << >>
                     ELSE \/ \E e \in { "failed to create repository client",
                                        "failed to setup repository client" } :
                               ReturnAtOnce(e) /\ repo' = << >>
                          \/ /\ ~MkdirAllOk(fs, DstWork)
                             /\ ReturnAtOnce("failed to create directory")
                             /\ repo' = << >>
                          \/ /\ MkdirAllOk(fs, DstWork)
                             /\ fs' = MkdirAll(fs, DstWork, ModePerm)
                             /\ \/ /\ Return("nil", "file store")
                                   /\ repo' = << >> /\ started' = { }
                                \/ /\ repo' = r.repo
                                   /\ started' = { Backend("pull", r.repo) }
                                   /\ pc' = "pull" /\ result' = NoResult
                             /\ UNCHANGED stored
    /\ UNCHANGED << processed, tmpDir, ExpandLocals, LibVars, callers >>

\* orasCopy returns
OciPull ==
    /\ gatherer = "oci" /\ pc = "pull"
    /\ \/ /\ Return("nil", "pulling policy")
          /\ UNCHANGED << fs, stored >>
       \/ /\ OpenFileOk(fs, Join(dst, OciFile))
          /\ fs' = OpenFile(fs, Join(dst, OciFile), Bz2FileMode)
          /\ stored' = [ stored EXCEPT !.oci = [ Path |-> dst, Digest |-> << "s", "h", "a", "2", "5", "6", ":", "0", "d" >> ] ]
          /\ Return("OCIMetadata", "nil")
    /\ UNCHANGED << src, dst, gatherer, ctxDone, processed, repo, tmpDir, started, calls,
                    ExpandLocals, LibVars, callers >>

(* HTTPGatherer.Gather *)

HTTPSources == { << "h", "t", "t", "p", "s", ":", "/", "/", "e", "x", "a", "m", "p", "l", "e", ".", "c", "o", "m", "/", "p", "o", "l", "i", "c", "y", ".", "r", "e", "g", "o" >>, << "e", "x", "a", "m", "p", "l", "e", ".", "c", "o", "m", "/", "p", "o", "l", "i", "c", "y", ".", "r", "e", "g", "o" >>,
                 << "h", "t", "t", "p", "s", ":", "/", "/", "e", "x", "a", "m", "p", "l", "e", ".", "c", "o", "m" >> }
HTTPDsts    == { DstWork, << "/", "w", "o", "r", "k", "/", "o", "u", "t", ".", "r", "e", "g", "o" >>, << "/", "w", "o", "r", "k", "/", "d", "s", "t", "/" >>, << "~", "/", "d", "s", "t" >> }

URLParseAssumeHttp(s) ==
    IF Contains(s, << ":", "/", "/" >>) THEN ParseUrl(s)
    ELSE [ ParseUrl(<< "h", "t", "t", "p", ":", "/", "/" >> \o s) EXCEPT !.scheme = << "h", "t", "t", "p" >> ]

\* url.Parse
URLParse(s) ==
    IF Contains(s, << ":", "/", "/" >>) THEN ParseUrl(s)
    ELSE [ scheme |-> << >>, host |-> << >>, path |-> s, query |-> << >> ]

\* the file the body is written to
HTTPDst(d, path) ==
    IF HasSuffix(d, << "/" >>) THEN Join(d, Base(path))
    ELSE IF Ext(d) = << >> THEN Clean(d \o << "/", "/" >> \o Base(path))
    ELSE d

\* the size of the body every server sends
BodySize == 2

\* Gather up to the call of h.Client.Do
HTTPGather ==
    /\ \E s \in HTTPSources, d \in HTTPDsts, done \in BOOLEAN :
         /\ Enter("http", s, d, done)
         /\ IF ctxErr(done) # "nil" THEN ReturnAtOnce(ctxErr(done))
            ELSE IF URLParse(s).scheme = << >>
            THEN ReturnAtOnce("no source scheme provided")
            ELSE IF URLParse(s).path = << >>
            THEN ReturnAtOnce("specify a path to a file to download")
            ELSE \E x \in ExpandPath(d) :
                   IF ~x.ok THEN ReturnAtOnce("failed to expand destination path")
                   ELSE /\ started' = { Backend("request", s) }
                        /\ pc' = "response" /\ result' = NoResult
                        /\ UNCHANGED << fs, stored >>
    /\ UNCHANGED << processed, repo, tmpDir, ExpandLocals, LibVars, callers >>

\* h.Client.Do returns, and what follows it
HTTPResponse ==
    /\ gatherer = "http" /\ pc = "response"
    /\ LET target == HTTPDst((CHOOSE x \in ExpandPath(dst) : x.ok).path,
                             URLParse(src).path)
       IN  \/ Return("nil", "failed to download from URL") /\ UNCHANGED << fs, stored >>
           \/ Return("nil", "received non-200 response code") /\ UNCHANGED << fs, stored >>
           \/ /\ ~MkdirAllOk(fs, Dir(target))
              /\ Return("nil", "failed to create destination directory")
              /\ UNCHANGED << fs, stored >>
           \/ /\ MkdirAllOk(fs, Dir(target))
              /\ LET made == MkdirAll(fs, Dir(target), DefaultDirMode)
                 IN  IF ~OpenFileOk(made, target)
                     THEN /\ fs' = made
                          /\ Return("nil", "failed to create destination file")
                          /\ UNCHANGED stored
                     ELSE \/ /\ fs' = OpenFile(made, target, Bz2FileMode)
                             /\ Return("nil", "failed to write to destination file")
                             /\ UNCHANGED stored
                          \/ /\ fs' = [ OpenFile(made, target, Bz2FileMode)
                                          EXCEPT ![target].size = BodySize ]
                             /\ stored' = [ stored EXCEPT !.http =
                                              [ URI |-> src, Path |-> target,
                                                ResponseCode |-> 200, Size |-> BodySize ] ]
                             /\ Return("HTTPMetadata", "nil")
    /\ UNCHANGED << src, dst, gatherer, ctxDone, processed, repo, tmpDir, started, calls,
                    ExpandLocals, LibVars, callers >>

(* FileGatherer.Gather *)

FileSources == { << "f", "i", "l", "e", ":", ":", "/", "d", "a", "t", "a", "/", "p", "o", "l", "i", "c", "y" >>, << "f", "i", "l", "e", ":", "/", "/", "/", "d", "a", "t", "a", "/", "a", ".", "r", "e", "g", "o" >>, << "/", "d", "a", "t", "a", "/", "x", ".", "t", "g", "z" >>,
                 << "/", "d", "a", "t", "a", "/", "x", ".", "t", "a", "r" >>, << "/", "d", "a", "t", "a", "/", "x", ".", "b", "z", "2" >>, << "/", "d", "a", "t", "a", "/", "n", "o", "n", "e" >>, << "~", "/", "a", ".", "r", "e", "g", "o" >> }

\* getExpander: the pair (expander, error); the expander is looked up under
\* the format keyword of the first extension the name ends with
orderedFormats ==
    << [ format |-> << "t", "a", "r" >>,   extensions |-> << << "t", "a", "r" >>, << "t", "a", "r", ".", "g", "z" >>, << "t", "g", "z" >>, << "t", "a", "r", ".", "b", "z", "2" >>, << "t", "b", "z", "2" >> >> ],
       [ format |-> << "b", "z", "i", "p", "2" >>, extensions |-> << << "b", "z", "2" >> >> ],
       [ format |-> << "g", "z", "i", "p" >>,  extensions |-> << << "g", "z", "i", "p" >>, << "g", "z" >> >> ],
       [ format |-> << "z", "i", "p" >>,   extensions |-> << << "z", "i", "p" >> >> ] >>

getExpander(s) ==
    LET hits == { i \in 1..Len(orderedFormats) :
                    \E j \in 1..Len(orderedFormats[i].extensions) :
                      HasSuffix(s, << "." >> \o orderedFormats[i].extensions[j]) }
    IN  IF hits = { } THEN [ e |-> Nil, ok |-> FALSE ]
        ELSE [ e  |-> GetExpander(expanders,
                        orderedFormats[CHOOSE i \in hits : \A j \in hits : i <= j].format),
               ok |-> TRUE ]

RECURSIVE SumSizes(_, _)
SumSizes(f, paths) ==
    IF paths = { } THEN 0
    ELSE LET p == CHOOSE q \in paths : TRUE
         IN  f[p].size + SumSizes(f, paths \ { p })

\* helpers.GetDirectorySize
GetDirectorySize(f, dir) ==
    SumSizes(f, { p \in DOMAIN f : Beneath(p, dir) /\ f[p].kind = "file" })

\* the whole of Gather
FileGather ==
    /\ \E s \in FileSources, d \in GatherDsts, done \in BOOLEAN :
         /\ Enter("file", s, d, done)
         /\ IF ctxErr(done) # "nil" THEN ReturnAtOnce(ctxErr(done))
            ELSE \E from \in ExpandPath(TrimPrefixes(s, << << "f", "i", "l", "e", ":", "/", "/" >>, << "f", "i", "l", "e", ":", ":" >> >>)),
                    to \in ExpandPath(TrimPrefixes(d, << << "f", "i", "l", "e", ":", "/", "/" >>, << "f", "i", "l", "e", ":", ":" >> >>)) :
                   IF ~from.ok THEN ReturnAtOnce("failed to expand source path")
                   ELSE IF ~to.ok THEN ReturnAtOnce("failed to expand destination path")
                   ELSE IF from.path \notin DOMAIN fs
                   THEN ReturnAtOnce("source file does not exist")
                   ELSE IF fs[from.path].kind = "dir"
                   THEN \E limit \in 0..Len(DataTree) :
                          LET copied == copyDir(fs, DataTree, DataRoot, from.path,
                                                to.path, limit)
                          IN  /\ started' = { Backend("copy", to.path) }
                              /\ fs' = copied.fs
                              /\ IF copied.ok
                                 THEN /\ stored' = [ stored EXCEPT !.file =
                                           [ Path |-> to.path,
                                             Size |-> GetDirectorySize(copied.fs, to.path) ] ]
                                      /\ Return("FSMetadata", "nil")
                                 ELSE /\ Return("nil", "failed to copy directory")
                                      /\ UNCHANGED stored
                   ELSE IF IsCompressedFile(OnDisk(FileData(from.path))).ok
                   THEN IF ~getExpander(from.path).ok
                        THEN ReturnAtOnce("compressed file found, but no expander available")
                        ELSE IF getExpander(from.path).e = Nil
                        THEN /\ pc' = "returned"     \* e.Expand on a nil Expander
                             /\ result' = [ m |-> "panic", err |-> "nil pointer dereference" ]
                             /\ started' = { }
                             /\ UNCHANGED << fs, stored >>
                        ELSE /\ started' = { Backend(getExpander(from.path).e, to.path) }
                             /\ \/ /\ Return("nil", "expand failed")
                                   /\ UNCHANGED << fs, stored >>
                                \/ /\ MkdirAllOk(fs, to.path)
                                   /\ LET made == MkdirAll(fs, to.path, DefaultDirMode)
                                          file == Join(to.path, << "f" >>)   \* what e.Expand decodes
                                      IN  /\ OpenFileOk(made, file)
                                          /\ fs' = [ OpenFile(made, file, Bz2FileMode)
                                                       EXCEPT ![file].size = 1 ]
                                          /\ stored' = [ stored EXCEPT !.file =
                                               [ Path |-> to.path,
                                                 Size |-> GetDirectorySize(fs', to.path) ] ]
                                   /\ Return("FSMetadata", "nil")
                   ELSE /\ started' = { Backend("copy", to.path) }
                        /\ UNCHANGED stored
                        /\ IF ~OpenFileOk(fs, to.path)
                           THEN Return("nil", "failed to create file") /\ UNCHANGED fs
                           ELSE \/ /\ fs' = OpenFile(fs, to.path, Bz2FileMode)
                                   /\ Return("nil", "failed to write to file")
                                \/ /\ fs' = [ OpenFile(fs, to.path, Bz2FileMode)
                                                EXCEPT ![to.path].size = fs[from.path].size ]
                                   /\ Return("FSMetadata", "nil")
    /\ UNCHANGED << processed, repo, tmpDir, ExpandLocals, LibVars, callers >>


\* the containment check of an Expand call, taken alone: the destination as
\* Expand receives it, the name as the archive holds it
ContainDsts == { << "." >>, << "o", "u", "t" >>, << "/" >>, << "/", "d" >>, << "/", "d", "/" >>, << ".", "/", "o", "u", "t" >>, << "o", "u", "t", "/" >>, << "~" >> }
ContainNames == { << "a" >>, << "a", "/", "b" >>, << "c" >>, << "a", "/", "b", "/", "c" >>, << "d", ".", "t", "x", "t" >>, << ".", "/", "a" >>, << ".", ".", "/", "e" >>, << "a", "/", ".", ".", "/", ".", ".", "/", "e" >> }

\* TarExpander.Expand up to the check of one header: the destination goes
\* through ExpandPath, then the joined path is tested
TarContain ==
    /\ \E d \in ContainDsts, name \in ContainNames : \E e \in ExpandPath(d) :
         /\ e.ok
         /\ dst' = e.path
         /\ ret' = Ret("TarPathAllowed", name, << >>, Nil, TarPathAllowed(e.path, name),
                       NoError)
    /\ UNCHANGED << src, pc, fs, ExpandLocals, expanders, gatherers, ociSource,
                    procUmask, GatherVars >>

\* ZipExpander.Expand up to the check of one file of the archive
ZipContain ==
    /\ \E d \in ContainDsts, name \in ContainNames : \E e \in ExpandPath(d) :
         /\ e.ok
         /\ dst' = e.path
         /\ ret' = Ret("ZipPathAllowed", name, << >>, Nil, ZipPathAllowed(e.path, name),
                       NoError)
    /\ UNCHANGED << src, pc, fs, ExpandLocals, expanders, gatherers, ociSource,
                    procUmask, GatherVars >>

(* Gather calls of two goroutines on the gatherer values of the registry *)

\* each caller has a source and a destination of its own
ShareDst(c) == IF c = 1 THEN << "/", "w", "o", "r", "k", "/", "d", "1" >> ELSE << "/", "w", "o", "r", "k", "/", "d", "2" >>
ShareSource(c, g) ==
    CASE g = "oci"  -> IF c = 1 THEN << "o", "c", "i", ":", "/", "/", "r", "e", "g", "i", "s", "t", "r", "y", "/", "r", "e", "p", "o", ":", "v", "1" >> ELSE << "o", "c", "i", ":", "/", "/", "r", "e", "g", "i", "s", "t", "r", "y", "/", "r", "e", "p", "o", ":", "v", "2" >>
      [] g = "http" -> IF c = 1 THEN << "h", "t", "t", "p", "s", ":", "/", "/", "e", "x", "a", "m", "p", "l", "e", ".", "c", "o", "m", "/", "p", "1", ".", "r", "e", "g", "o" >>
                       ELSE << "h", "t", "t", "p", "s", ":", "/", "/", "e", "x", "a", "m", "p", "l", "e", ".", "c", "o", "m", "/", "p", "2", ".", "r", "e", "g", "o" >>
      [] g = "file" -> IF c = 1 THEN << "/", "d", "a", "t", "a", "/", "p", "o", "l", "i", "c", "y" >> ELSE << "/", "d", "a", "t", "a" >>

\* the fields each Gather assigns before it returns, in the order of the code
MetadataFields(g) ==
    CASE g = "oci"  -> << "Digest", "Path" >>
      [] g = "http" -> << "URI", "Path", "ResponseCode", "Size" >>
      [] g = "file" -> << "Path", "Size" >>

\* the metadata struct embedded in the gatherer value g
MetadataOf(g) ==
    Meta(stored[g].Path,
         IF g = "oci" THEN 0 ELSE stored[g].Size,
         IF g = "oci" THEN stored.oci.Digest ELSE << >>,
         IF g = "http" THEN stored.http.URI ELSE << >>)

\* what a caller reads through the value Gather returned to it
Observed(c) ==
    IF callers[c].m.kind = "shared" THEN MetadataOf(callers[c].g) ELSE callers[c].m.val

ShareFrame ==
    UNCHANGED << src, dst, pc, ExpandLocals, LibVars, gatherer, ctxDone, processed, repo,
                 tmpDir, started, result, calls >>

\* a goroutine calls Gather on the gatherer GetGatherer returned
ShareEnter(c) ==
    /\ callers[c].pc = "idle"
    /\ \E g \in { "oci", "http", "file" } :
         callers' = [ callers EXCEPT ![c].pc = "work", ![c].g = g,
                        ![c].late = \E d \in Callers : callers[d].pc = "returned" ]
    /\ UNCHANGED << fs, stored >>
    /\ ShareFrame

\* the call does its work on the disk, up to the assignments of the metadata
ShareWork(c) ==
    /\ callers[c].pc = "work"
    /\ LET g  == callers[c].g
           to == ShareDst(c)
       IN  \/ /\ callers' = [ callers EXCEPT ![c].pc = "returned" ]
              /\ UNCHANGED fs
           \/ /\ g = "oci"
              /\ LET made == MkdirAll(fs, to, ModePerm)
                 IN  fs' = OpenFile(made, Join(to, OciFile), Bz2FileMode)
              /\ callers' = [ callers EXCEPT ![c].pc = "set", ![c].own =
                     Meta(to, 0, << "s", "h", "a", "2", "5", "6", ":", "0" >> \o (IF c = 1 THEN << "1" >> ELSE << "2" >>), << >>) ]
           \/ /\ g = "http"
              /\ LET target == HTTPDst(to, URLParse(ShareSource(c, g)).path)
                     made   == MkdirAll(fs, Dir(target), DefaultDirMode)
                 IN  /\ fs' = [ OpenFile(made, target, Bz2FileMode)
                                 EXCEPT ![target].size = BodySize + c ]
                     /\ callers' = [ callers EXCEPT ![c].pc = "set", ![c].own =
                            Meta(target, BodySize + c, << >>, ShareSource(c, g)) ]
           \/ /\ g = "file"
              /\ LET copied == copyDir(fs, DataTree, DataRoot, ShareSource(c, g), to,
                                       Len(DataTree))
                 IN  /\ copied.ok
                     /\ fs' = copied.fs
                     /\ callers' = [ callers EXCEPT ![c].pc = "set", ![c].own =
                            Meta(to, GetDirectorySize(copied.fs, to), << >>, << >>) ]
    /\ UNCHANGED stored
    /\ ShareFrame

\* the call assigns the next field of the metadata embedded in the gatherer
ShareAssign(c) ==
    /\ callers[c].pc = "set"
    /\ callers[c].at < Len(MetadataFields(callers[c].g))
    /\ LET g     == callers[c].g
           field == MetadataFields(g)[callers[c].at + 1]
       IN  stored' = [ stored EXCEPT ![g][field] =
                         IF field = "ResponseCode" THEN 200 ELSE callers[c].own[field] ]
    /\ callers' = [ callers EXCEPT ![c].at = @ + 1 ]
    /\ UNCHANGED fs
    /\ ShareFrame

\* the call returns: HTTPGatherer a copy of its metadata struct, OCIGatherer
\* and FileGatherer a pointer to the struct inside the gatherer
ShareReturn(c) ==
    /\ callers[c].pc = "set"
    /\ callers[c].at = Len(MetadataFields(callers[c].g))
    /\ callers' = [ callers EXCEPT ![c].pc = "returned",
                      ![c].m = IF callers[c].g = "http"
                               THEN [ kind |-> "own", val |-> MetadataOf("http") ]
                               ELSE [ kind |-> "shared", val |-> NoMeta ] ]
    /\ UNCHANGED << fs, stored >>
    /\ ShareFrame

----------------------------------------------------------------------------

Init ==
    /\ kind \in { "tar", "zip", "bzip2" }
    /\ fileSizeLimit \in SizeLimits
    /\ filesLimit \in IF kind = "bzip2" THEN { 0 } ELSE CountLimits
    /\ src = << >> /\ dst = << >> /\ umask = 0 /\ via = "none"
    /\ pc = "idle" /\ err = "none"
    /\ fs = << >>
    /\ totalFileSize = 0 /\ filesCount = 0 /\ headerCount = 0 /\ seenDirs = << >>
    /\ cur = << >> /\ totalBytes = 0 /\ remaining = 0
    /\ corrupt = FALSE /\ streamLen = 0
    /\ last = NoEntry /\ nRead = 0 /\ nReal = 0 /\ nMade = 0
    /\ declTotal = 0 /\ archDirs = << >> /\ written = 0
    /\ expanders = << >> /\ gatherers = << >>
    /\ ociSource = "part_003" /\ ret = NoCall /\ procUmask = 0
    /\ GatherIdle

Next ==
    \/ TarExpand
    \/ UntarEntry
    \/ UntarEOF
    \/ UntarReadError
    \/ UntarDirMeta
    \/ ZipExpand
    \/ ZipEntry
    \/ ZipRead
    \/ ZipReadError
    \/ ZipEnd
    \/ Bz2Expand
    \/ Bz2Read

Spec == Init /\ [][Next]_vars

\* no Expand call is under way
ExpandIdle ==
    /\ kind = "tar" /\ fileSizeLimit = 0 /\ filesLimit = 0
    /\ umask = 0 /\ via = "none" /\ err = "none"
    /\ totalFileSize = 0 /\ filesCount = 0 /\ headerCount = 0 /\ seenDirs = << >>
    /\ cur = << >> /\ totalBytes = 0 /\ remaining = 0
    /\ corrupt = FALSE /\ streamLen = 0
    /\ last = NoEntry /\ nRead = 0 /\ nReal = 0 /\ nMade = 0
    /\ declTotal = 0 /\ archDirs = << >> /\ written = 0

RegistryStart ==
    /\ ExpandIdle /\ src = << >> /\ dst = << >> /\ pc = "idle" /\ fs = << >>
    /\ GatherIdle
    /\ RegistryInit

RegistryNext ==
    \/ RegisterExpander
    \/ RegisterGatherer
    \/ GetExpanderCall
    \/ GetGathererCall

\* registrations and lookups in any order
RegistrySpec == RegistryStart /\ [][RegistryNext]_vars

StockStart ==
    /\ ExpandIdle /\ src = << >> /\ dst = << >> /\ pc = "idle" /\ fs = << >>
    /\ GatherIdle
    /\ expanders = << >> /\ gatherers = StockGatherers
    /\ ociSource \in OciSources /\ ret = NoCall /\ procUmask = 0

StockNext ==
    \/ StockLookup

\* lookups in the registry of the four stock gatherers
StockSpec == StockStart /\ [][StockNext]_vars

DetectNext ==
    \/ Detector
    \/ IsCompressedFileCall
    \/ IsTarFileCall

\* the detectors and the file sniffers, called in any order on any input
DetectSpec == RegistryStart /\ [][DetectNext]_vars

\* the stock expanders, registered or not
GatherStart ==
    /\ ExpandIdle /\ src = << >> /\ dst = << >> /\ pc = "idle"
    /\ fs \in { BaseDisk, UsedDisk }
    /\ GatherIdle
    /\ expanders \in { << >>, << "TarExpander", "ZipExpander", "Bzip2Expander" >> }
    /\ gatherers = << >> /\ ociSource = "oci.go" /\ ret = NoCall /\ procUmask = 0

GatherNext ==
    \/ GitGather
    \/ GitClone
    \/ GitCheckout
    \/ GitSubdir
    \/ GitHead
    \/ OciGather
    \/ OciPull
    \/ HTTPGather
    \/ HTTPResponse
    \/ FileGather

\* Gather calls of the four gatherers, one after the other
GatherSpec == GatherStart /\ [][GatherNext]_vars

ContainNext ==
    \/ TarContain
    \/ ZipContain

\* the containment checks of the tar and the zip expander on any destination
ContainSpec == RegistryStart /\ [][ContainNext]_vars

\* umask values of the calling process: none, 022, 077
ProcUmasks == { 0, 18, 63 }

\* a tar expander without limits, in a process with any of the umasks
ModeStart ==
    /\ ExpandIdle /\ src = << >> /\ dst = << >> /\ pc = "idle" /\ fs = << >>
    /\ GatherIdle
    /\ expanders = << >> /\ gatherers = << >> /\ ociSource = "part_003"
    /\ ret = NoCall /\ procUmask \in ProcUmasks

ModeNext ==
    \/ TarExpand
    \/ UntarEntry
    \/ UntarEOF
    \/ UntarReadError
    \/ UntarDirMeta

\* TarExpander.Expand into an empty file system under each umask
ModeSpec == ModeStart /\ [][ModeNext]_vars

\* the gatherers of the registry, nothing gathered yet
ShareStart ==
    /\ ExpandIdle /\ src = << >> /\ dst = << >> /\ pc = "idle" /\ fs = BaseDisk
    /\ GatherIdle
    /\ expanders = << >> /\ gatherers = StockGatherers /\ ociSource = "oci.go"
    /\ ret = NoCall /\ procUmask = 0

ShareNext ==
    \E c \in Callers :
        \/ ShareEnter(c)
        \/ ShareWork(c)
        \/ ShareAssign(c)
        \/ ShareReturn(c)

\* Gather calls of two goroutines, interleaved at the assignments
ShareSpec == ShareStart /\ [][ShareNext]_vars


----------------------------------------------------------------------------
(* Properties *)

\* the elements of a cleaned path
Elems(p) == CleanElems(Split(p), 1, p # << >> /\ p[1] = Sep, << >>)

\* p lies strictly below root, element by element
Descends(p, root) ==
    LET a == Elems(root)
        b == Elems(p)
    IN  Len(b) > Len(a) /\ SubSeq(b, 1, Len(a)) = a

\* clean(join(dst, entry.name))
EntryDest(h) == Clean(Join(dst, h.name))

Escapes(h) == Real(h) /\ ~Descends(EntryDest(h), Clean(dst))

Archive == kind \in { "tar", "zip" }

EntryTaken == nRead' = nRead + 1

NothingOutsideDst ==
    \A p \in DOMAIN fs : p = Clean(dst) \/ Descends(p, Clean(dst))

C1_StateContained ==
    /\ NothingOutsideDst
    /\ (Archive /\ Escapes(last)) =>
          /\ pc = "done"
          /\ \/ err = "illegal"
             \/ kind = "tar" /\ err = "count" /\ filesLimit > 0 /\ nRead > filesLimit
             \/ kind = "zip" /\ err = "size" /\ fileSizeLimit > 0
                /\ last.size > fileSizeLimit

C1_StepContained ==
    (Archive /\ EntryTaken /\ Escapes(last')) => fs' = fs

----------------------------------------------------------------------------

C2_State ==
    kind = "tar" =>
       /\ fileSizeLimit > 0 => written <= fileSizeLimit
       /\ (fileSizeLimit > 0 /\ last.typ = "reg" /\ declTotal > fileSizeLimit)
             => (pc = "done" /\ err \in { "size", "count", "illegal" })
       /\ err = "size" =>
             /\ fileSizeLimit > 0 /\ last.typ = "reg"
             /\ declTotal > fileSizeLimit
             /\ declTotal - last.size <= fileSizeLimit
             /\ written = declTotal - last.size
       /\ fileSizeLimit = 0 => err # "size"

C2_Step ==
    (kind = "tar" /\ EntryTaken /\ last'.typ = "reg" /\ fileSizeLimit > 0
        /\ declTotal' > fileSizeLimit)
       => (pc' = "done" /\ fs' = fs /\ written' = written)

\* C2: tar (plain, gzip, bzip2): with FileSizeLimit = S > 0 the call fails at
\* the first file entry at which the running total of declared sizes exceeds
\* S, before that entry's file is created; the bytes written never exceed S;
\* the size error is given for no other reason, and never with S = 0.
C2_TarSizeCeiling == []C2_State /\ [][C2_Step]_vars

C2_Witness ==
    /\ kind = "tar" /\ via = "extractTarBz" /\ pc = "done" /\ err = "size"
    /\ last.size <= fileSizeLimit /\ written > 0 /\ nMade >= 1

----------------------------------------------------------------------------

\* C3: zip: with FileSizeLimit = S > 0 the call aborts as soon as the running
\* total of decompressed bytes across all entries exceeds S.
C3_ZipCumulativeCeiling ==
    (kind = "zip" /\ fileSizeLimit > 0 /\ written > fileSizeLimit)
       => (pc = "done" /\ err # "none")

----------------------------------------------------------------------------

\* C4: tar: with FilesLimit = L > 0 the call fails as soon as more than L
\* entries have been read, with at most L entries materialised; an archive of
\* at most L entries is never rejected for its count; L = 0 checks nothing.
C4_TarCountCeiling ==
    kind = "tar" =>
       /\ (filesLimit > 0 /\ nRead > filesLimit) => (pc = "done" /\ err = "count")
       /\ err = "count" =>
             (filesLimit > 0 /\ nRead = filesLimit + 1 /\ nMade <= filesLimit)
       /\ filesLimit > 0 => nMade <= filesLimit
       /\ filesLimit = 0 => err # "count"

C4_Witness ==
    /\ kind = "tar" /\ pc = "done" /\ err = "count"
    /\ nMade = filesLimit /\ DOMAIN fs # { }

----------------------------------------------------------------------------

\* C5: zip: with FilesLimit = L > 0 the call aborts with an error when the
\* archive holds more than L entries, so no more than L entries are written.
C5_ZipCountCeiling ==
    (kind = "zip" /\ filesLimit > 0) =>
       /\ nMade <= filesLimit
       /\ nRead > filesLimit => (pc = "done" /\ err # "none")

----------------------------------------------------------------------------

\* C6: untar never returns success for a stream that reached EOF without
\* yielding a file or directory entry (extended headers alone included).
C6_EmptyStreamStrict ==
    (kind = "tar" /\ pc = "done" /\ err = "none") => nReal >= 1

----------------------------------------------------------------------------

\* C7: an extended header consumes no FilesLimit budget, adds nothing to the
\* size total and creates nothing: the count error needs more than FilesLimit
\* file and directory entries.
C7_ExtendedHeadersUncounted ==
    kind = "tar" =>
       /\ filesCount <= nReal
       /\ err = "count" => nReal > filesLimit
       /\ IsExtendedHeader(last) => (nMade <= nReal /\ totalFileSize <= declTotal)

----------------------------------------------------------------------------

\* C8: while untar reads entries every directory has the default mode 0755 and
\* no archived mode or time has been applied to any directory; when the call
\* succeeds every directory seen has the mode and times of its header (of the
\* latest one, when several headers name the same directory).
C8_TwoPassDirMeta ==
    kind = "tar" =>
       /\ pc = "untar" =>
             \A p \in DOMAIN fs :
                fs[p].kind = "dir" => (fs[p].mode = DefaultDirMode /\ ~fs[p].meta)
       /\ (pc = "done" /\ err = "none") =>
             \A p \in DOMAIN archDirs :
                /\ p \in DOMAIN fs
                /\ fs[p].kind = "dir" /\ fs[p].meta /\ fs[p].mode = archDirs[p]

C8_Witness ==
    /\ kind = "tar" /\ pc = "done" /\ err = "none"
    /\ Cardinality(DOMAIN archDirs) >= 2
    /\ \E p \in DOMAIN archDirs, q \in DOMAIN fs :
          /\ fs[q].kind = "file" /\ Descends(q, p)
          /\ fs[p].mode # DefaultDirMode

----------------------------------------------------------------------------

\* the output file of each source, written out by hand
Bz2Expected ==
    IF src = SrcFTxtBz2 THEN << "/", "d", "/", "f", ".", "t", "x", "t" >>
    ELSE IF src = SrcFBz2 THEN << "/", "d", "/", "f" >>
    ELSE << >>

\* C9: bzip2: with FileSizeLimit = S > 0 never more than S bytes are written,
\* and the call ends in the size error exactly when the stream is longer than
\* S; with S = 0 the whole stream is written; the output file is dst joined
\* with the base name of the source minus its last extension.
C9_Bzip2Ceiling ==
    (kind = "bzip2" /\ pc \in { "bzcopy", "done" } /\ err \notin { "open", "mkdir" }) =>
       /\ cur = Bz2Expected
       /\ cur = << >> => (err = "create" /\ written = 0)
       /\ cur # << >> =>
             /\ fs[cur].kind = "file" /\ fs[cur].size = written
             /\ fileSizeLimit > 0 => written <= fileSizeLimit
             /\ pc = "done" =>
                   /\ err = "size" <=> (fileSizeLimit > 0 /\ streamLen > fileSizeLimit)
                   /\ err # "size" => written = streamLen

C9_Witness ==
    /\ kind = "bzip2" /\ pc = "done" /\ err = "size"
    /\ written > 0 /\ written <= fileSizeLimit /\ cur = Bz2Expected

----------------------------------------------------------------------------

C10_State ==
    (kind = "zip" /\ fileSizeLimit > 0) =>
       /\ \A p \in DOMAIN fs : fs[p].kind = "file" => fs[p].size <= fileSizeLimit
       /\ pc = "extract" => totalBytes <= fileSizeLimit
       /\ (last.typ = "reg" /\ last.size > fileSizeLimit)
             => (pc = "done" /\ err = "size")
       /\ (last.typ = "reg" /\ last.size <= fileSizeLimit /\ last.actual > fileSizeLimit)
             => (pc = "extract" \/ (pc = "done" /\ err # "none"))
       /\ err = "size" => last.size > fileSizeLimit
       /\ err = "extracted" => (last.size <= fileSizeLimit /\ last.actual > fileSizeLimit)

C10_Step ==
    (kind = "zip" /\ fileSizeLimit > 0 /\ EntryTaken /\ last'.typ = "reg"
        /\ last'.size > fileSizeLimit)
       => (fs' = fs /\ written' = written)

----------------------------------------------------------------------------
(* Properties of the registries, the detectors and the file sniffers *)

\* the position of the earliest of list that accepts, 0 when none does
Earliest(accepting) ==
    IF accepting = { } THEN 0
    ELSE CHOOSE i \in accepting : \A j \in accepting : i <= j

AcceptingExpanders(x) ==
    { i \in 1..Len(expanders) : ExpanderMatcher(expanders[i], x) }

AcceptingGatherers(uri) ==
    { i \in 1..Len(gatherers) : GathererMatcher(ociSource, gatherers[i], uri) }

Registered(list) == { list[i] : i \in 1..Len(list) }

C11_State ==
    /\ ret.fn = "GetExpander" =>
         LET i == Earliest(AcceptingExpanders(ret.arg))
         IN  /\ ret.out = IF i = 0 THEN Nil ELSE expanders[i]
             /\ ~ret.err.present
    /\ ret.fn = "GetGatherer" =>
         LET i == Earliest(AcceptingGatherers(ret.arg))
         IN  IF i = 0
             THEN /\ ret.out = Nil
                  /\ ret.err = Errorf(<< "n", "o", " ", "g", "a", "t", "h", "e", "r", "e", "r", " ", "f", "o", "u", "n", "d", " ", "f", "o", "r", " ", "U", "R", "I", ":", " " >> \o ret.arg)
             ELSE /\ ret.out = gatherers[i]
                  /\ ~ret.err.present

C11_Step ==
    ret'.fn \in { "GetExpander", "GetGatherer" } => UNCHANGED << expanders, gatherers >>

\* C11: GetExpander and GetGatherer return the earliest-registered handler whose
\* Matcher accepts the input; with no accepting handler GetExpander returns nil
\* and GetGatherer returns nil with the error "no gatherer found for URI: <uri>";
\* a lookup leaves both registries as they were.
C11_FirstMatchDispatch == []C11_State /\ [][C11_Step]_vars

\* two different registered expanders accept the name and the earlier is returned
C11_Witness ==
    /\ ret.fn = "GetExpander"
    /\ \E i, j \in AcceptingExpanders(ret.arg) :
         i < j /\ expanders[i] # expanders[j] /\ ret.out = expanders[i]
    /\ ret.out # expanders[Len(expanders)]

TarAndBzip2Name(name) ==
    Contains(name, << "t", "a", "r" >>) /\ (Contains(name, << "b", "z", "2" >>) \/ Contains(name, << "b", "z", "i", "p", "2" >>))

\* C12: a name containing "tar" together with "bz2" or "bzip2" is accepted by
\* TarExpander.Matcher, rejected by Bzip2Expander.Matcher, and handed to the
\* TarExpander by GetExpander whenever the Tar and the Bzip2 expander are both
\* registered, in either order.
C12_TarBz2GoesToTar ==
    /\ \A name \in { x \in ExpanderArgs : TarAndBzip2Name(x) } :
         TarMatcher(name) /\ ~Bzip2Matcher(name)
    /\ ( /\ ret.fn = "GetExpander"
         /\ TarAndBzip2Name(ret.arg)
         /\ { "TarExpander", "Bzip2Expander" } \subseteq Registered(expanders) )
       => ret.out = "TarExpander"

\* C13: IsCompressedFile returns true exactly when the bytes the file holds
\* begin with one complete signature; an empty file and a file shorter than
\* the signature return (false, nil); an error is returned with false only.
C13_SignatureSniffing ==
    ret.fn = "IsCompressedFile" =>
        IF ret.err.present THEN ~ret.ok /\ ret.data = << >>
        ELSE ret.ok <=> \E magic \in magicNumbers : HasPrefix(ret.data, magic)

\* C14: IsTarFile returns true exactly when the six bytes at offsets [257,263)
\* are "ustar" followed by NUL or by a space; a file shorter than 263 bytes
\* returns (false, nil).
C14_TarMagic ==
    (ret.fn = "IsTarFile" /\ ~ret.err.present) =>
        ( ret.ok <=>
            /\ Len(ret.data) >= TarMagicOffset + TarMagicLen
            /\ SubSeq(ret.data, TarMagicOffset + 1, TarMagicOffset + 5) = Ustar
            /\ ret.data[TarMagicOffset + TarMagicLen] \in { 0, 32 } )

\* the domains GitGatherer.Matcher treats as git hosts
GitHosts == { << "g", "i", "t", "h", "u", "b", ".", "c", "o", "m" >>, << "g", "i", "t", "l", "a", "b", ".", "c", "o", "m" >>, << "b", "i", "t", "b", "u", "c", "k", "e", "t", ".", "o", "r", "g" >> }

\* C15: HTTPGatherer.Matcher accepts exactly the URIs that start with http://
\* or https:// and name none of the git-hosting domains of GitGatherer.Matcher;
\* no URI is accepted by both the HTTP and the Git matcher.
C15_HttpNotGitHost ==
    ret.fn = "HttpDetector" =>
        /\ ret.ok <=>
             /\ HasPrefix(ret.arg, << "h", "t", "t", "p", ":", "/", "/" >>) \/ HasPrefix(ret.arg, << "h", "t", "t", "p", "s", ":", "/", "/" >>)
             /\ ~\E host \in GitHosts : Contains(ret.arg, host)
        /\ ~(ret.ok /\ GitMatcher(ret.arg))

\* the host of a bare reference: what precedes its first "/"
HostOf(uri) == Split(uri)[1]

\* no scheme, no forced-scheme marker, no user
BareReference(uri) ==
    /\ uri # << >>
    /\ ~Contains(uri, << ":", "/", "/" >>) /\ ~Contains(uri, << ":", ":" >>) /\ ~Contains(uri, << "@" >>)

\* C16: OCIGatherer.Matcher accepts exactly the URIs that start with oci:// or
\* oci::, and the bare references whose host is a known container registry or
\* a loopback host:port.
C16_OciMatcher ==
    ret.fn = "OciDetector" =>
        ( ret.ok <=>
            \/ HasPrefix(ret.arg, << "o", "c", "i", ":", "/", "/" >>) \/ HasPrefix(ret.arg, << "o", "c", "i", ":", ":" >>)
            \/ BareReference(ret.arg) /\ containsOCIRegistry(HostOf(ret.arg)) )

\* the scheme prefixes of a git source
SchemePrefixes == << << "g", "i", "t", ":", "/", "/" >>, << "g", "i", "t", ":", ":" >>, << "h", "t", "t", "p", "s", ":", "/", "/" >>, << "f", "i", "l", "e", ":", "/", "/" >>, << "f", "i", "l", "e", ":", ":" >> >>

\* user@host:path
SshStyle(s) ==
    /\ Index(s, << "@" >>) > 1
    /\ ~Contains(Before(s, << "@" >>), << "/" >>) /\ ~Contains(Before(s, << "@" >>), << ":" >>)
    /\ Contains(After(s, << "@" >>), << ":" >>)
    /\ ~Contains(Before(After(s, << "@" >>), << ":" >>), << "/" >>)

\* s begins with a scheme
HasScheme(s) ==
    /\ Index(s, << ":", "/", "/" >>) > 1
    /\ \A i \in 1..(Index(s, << ":", "/", "/" >>) - 1) : s[i] \in Letters

\* s holds a scheme and, after it, another one
TwoSchemes(s) == HasScheme(s) /\ HasScheme(After(s, << ":", "/", "/" >>))

\* GitGatherer.Gather called processUrl
UrlProcessed == gatherer = "git" /\ processed # NoProcessed

\* C17: processUrl strips the known scheme prefixes and then prepends https://
\* exactly when no scheme remains, the string is no SSH-style user@host: form
\* and no local file path; an SSH-style source is not rewritten into an
\* https:// URL, and the URL never carries two schemes.
C17_SchemeRule ==
    UrlProcessed =>
        LET rest == TrimPrefixes(src, SchemePrefixes)
        IN  /\ HasPrefix(processed.parse, << "h", "t", "t", "p", "s", ":", "/", "/" >>)
                 <=> (~HasScheme(rest) /\ ~SshStyle(rest) /\ ~filePathPattern(rest))
            /\ SshStyle(rest) => ~HasPrefix(processed.src, << "h", "t", "t", "p", "s", ":", "/", "/" >>)
            /\ ~TwoSchemes(processed.parse) /\ ~TwoSchemes(processed.src)

\* a Gather call of the Git gatherer on a source that names a subdirectory,
\* past the creation of the scratch directory
Scratch == gatherer = "git" /\ processed.subdir # << >> /\ tmpDir # << >>

AtOrBelow(p, root) == p = root \/ Beneath(p, root)

\* the entry of the scratch clone that p, below dst, is a copy of
SubdirSource(p) ==
    Join(Join(tmpDir, processed.subdir), SubSeq(p, Len(Clean(dst)) + 2, Len(p)))

C18_State ==
    Scratch =>
        /\ tmpDir # Clean(dst) /\ ~AtOrBelow(Clean(dst), tmpDir)
        /\ \A b \in started : b.op = "clone" => b.at = tmpDir
        /\ pc = "head" =>
             \A q \in DOMAIN fs :
               Beneath(q, Join(tmpDir, processed.subdir)) =>
                 \E p \in DOMAIN fs :
                   /\ Beneath(p, Clean(dst)) /\ SubdirSource(p) = q
                   /\ fs[p].kind = fs[q].kind /\ fs[p].size = fs[q].size
        /\ pc = "returned" => \A p \in DOMAIN fs : ~AtOrBelow(p, tmpDir)

C18_Step ==
    /\ (calls' = calls + 1 /\ Scratch') =>
         /\ \A p \in DOMAIN fs : ~AtOrBelow(p, tmpDir')
         /\ tmpDir' \in DOMAIN fs' /\ fs'[tmpDir'].kind = "dir"
         /\ \A p \in DOMAIN fs' \ { tmpDir' } : p \in DOMAIN fs /\ fs'[p] = fs[p]
    /\ (calls' = calls /\ Scratch /\ Scratch') =>
         /\ \A p \in DOMAIN fs \ DOMAIN fs' : AtOrBelow(p, tmpDir)
         /\ \A p \in DOMAIN fs' :
              (p \notin DOMAIN fs \/ fs'[p] # fs[p]) =>
                \/ AtOrBelow(p, tmpDir)
                \/ p = Clean(dst)
                \/ /\ Beneath(p, Clean(dst))
                   /\ SubdirSource(p) \in DOMAIN fs
                   /\ fs[SubdirSource(p)].kind = fs'[p].kind

\* C18: when the source names a subdirectory, the clone goes into a freshly
\* created scratch directory and never into dst, dst receives only the content
\* beneath the requested subdirectory, and the scratch directory is gone when
\* Gather returns, with the metadata or with any error.
C18_ScratchClone == []C18_State /\ [][C18_Step]_vars

C18_Witness ==
    /\ Scratch /\ pc = "returned" /\ result.m = "GitMetadata"
    /\ processed.subdir = << "s", "u", "b", "/", "l", "i", "b" >>
    /\ << "/", "w", "o", "r", "k", "/", "d", "s", "t", "/", "b", ".", "r", "e", "g", "o" >> \in DOMAIN fs
    /\ << "/", "w", "o", "r", "k", "/", "d", "s", "t", "/", "o", "l", "d" >> \in DOMAIN fs

\* C19: for a source oci://localhost:PORT/repo[:tag] or
\* oci::localhost:PORT/repo[:tag] the reference handed to the pull is
\* 127.0.0.1:PORT/repo:tag, the tag being latest when the source gave none; the
\* repository path and a given tag pass through unchanged.
C19_OciReference ==
    (gatherer = "oci" /\ repo # << >>) =>
        \A p \in OciParts :
          src = OciSourceOf(p) =>
            repo = << "1", "2", "7", ".", "0", ".", "0", ".", "1", ":" >> \o p.port \o << "/" >> \o p.repo \o << ":" >>
                   \o (IF p.tag = << >> THEN << "l", "a", "t", "e", "s", "t" >> ELSE p.tag)

\* C20: Gather of any of the four gatherers, called with a canceled context,
\* returns (nil, ctx.Err()) at once: no backend operation is started, and the
\* filesystem and the stored metadata are left as they were.
C20_CanceledAtEntry ==
    [][ (calls' = calls + 1 /\ ctxDone') =>
          /\ gatherer' \in { "file", "git", "http", "oci" }
          /\ pc' = "returned"
          /\ result' = [ m |-> "nil", err |-> "context canceled" ]
          /\ started' = { }
          /\ fs' = fs /\ stored' = stored ]_vars

C20_Witness ==
    /\ ctxDone /\ pc = "returned" /\ calls = 1
    /\ gatherer = "file" /\ src = << "f", "i", "l", "e", ":", ":", "/", "d", "a", "t", "a", "/", "p", "o", "l", "i", "c", "y" >>
    /\ result.err = "context canceled"
    /\ fs = UsedDisk

C26_Step ==
    /\ ociSource' = ociSource
    /\ expanders' # expanders =>
         /\ \E e \in Expanders : expanders' = Append(expanders, e)
         /\ \A x \in ExpanderArgs :
              GetExpander(expanders, x) # Nil
                => GetExpander(expanders', x) = GetExpander(expanders, x)
    /\ gatherers' # gatherers =>
         /\ \E g \in Gatherers : gatherers' = Append(gatherers, g)
         /\ \A uri \in GathererArgs :
              GetGatherer(ociSource, gatherers, uri).out # Nil
                => GetGatherer(ociSource, gatherers', uri)
                     = GetGatherer(ociSource, gatherers, uri)

\* C26: the two registries are append-only: a step that changes a registry adds
\* one handler at its end, and after it every input that had a match before is
\* still dispatched to the same handler.
C26_AppendOnly == [][C26_Step]_vars

\* a handler was registered that accepts a name an earlier handler accepts, and
\* the name still goes to the earlier one
C26_Witness ==
    /\ ret.fn = "RegisterExpander"
    /\ Len(expanders) >= 2
    /\ \E x \in ExpanderArgs :
         /\ ExpanderMatcher(ret.out, x)
         /\ GetExpander(SubSeq(expanders, 1, Len(expanders) - 1), x) \notin { Nil, ret.out }
         /\ GetExpander(expanders, x) # ret.out

\* C27: with the three stock expanders registered GetExpander returns the same
\* expander for a name under every order of registration, the three Matchers
\* accepting pairwise disjoint sets of names.
C27_OrderIndependent ==
    ( /\ ret.fn = "GetExpander"
      /\ Registered(expanders) = Expanders )
    => /\ Cardinality({ e \in Expanders : ExpanderMatcher(e, ret.arg) }) <= 1
       /\ ret.out = GetExpander(<< "TarExpander", "ZipExpander", "Bzip2Expander" >>, ret.arg)

\* the URI carries no scheme marker
SchemeLess(uri) ==
    /\ ~Contains(uri, << ":", "/", "/" >>)
    /\ ~\E marker \in { << "o", "c", "i", ":", ":" >>, << "g", "i", "t", ":", ":" >>, << "f", "i", "l", "e", ":", ":" >> } : HasPrefix(uri, marker)

\* C30: with the stock gatherers registered in the order file, git, http, oci,
\* GetGatherer returns the OCI gatherer for every URI without a scheme that
\* OCIGatherer.Matcher accepts as a registry reference.
C30_RegistryReferenceToOci ==
    ( /\ gatherers = StockGatherers
      /\ ret.fn = "GetGatherer"
      /\ SchemeLess(ret.arg)
      /\ OCIMatcher(ociSource, ret.arg) )
    => ret.out = "OCIGatherer" /\ ~ret.err.present

\* a relative name without a ".." element that names something below the
\* directory it is joined to
PlainRelative(name) ==
    /\ name # << >> /\ name[1] # Sep
    /\ \A i \in 1..Len(Split(name)) : Split(name)[i] # DotDot
    /\ Elems(name) # << >>

\* C29: whatever destination Expand is given, relative or the root included,
\* the containment check of the tar and of the zip expander lets an entry with
\* a plain relative name pass.
C29_PlainNameAllowed ==
    ( /\ ret.fn \in { "TarPathAllowed", "ZipPathAllowed" }
      /\ PlainRelative(ret.arg) )
    => ret.ok

\* the entry just extracted is a regular file that was not there before: it
\* has the archived size and the archived permission bits
C24_File ==
    ( /\ kind = "tar" /\ nRead' = nRead + 1 /\ err' = "none"
      /\ last'.typ = "reg"
      /\ EntryDest(last') \notin DOMAIN fs )
    => /\ EntryDest(last') \in DOMAIN fs'
       /\ fs'[EntryDest(last')].kind = "file"
       /\ fs'[EntryDest(last')].size = last'.actual
       /\ fs'[EntryDest(last')].mode = last'.mode

\* after a successful Expand every directory of the archive has its archived
\* permission bits
C24_Dirs ==
    (kind = "tar" /\ pc = "done" /\ err = "none")
    => \A p \in DOMAIN seenDirs :
         /\ p \in DOMAIN fs /\ fs[p].kind = "dir"
         /\ fs[p].mode = seenDirs[p].mode

\* C24: expanding a tar archive into an empty destination reproduces every
\* archived file and directory under its name with its content and its
\* permission bits, whatever the umask.
C24_TarRoundTrip == []C24_Dirs /\ [][C24_File]_vars

HTTPEarlyErrors ==
    { "no source scheme provided", "specify a path to a file to download",
      "failed to download from URL", "received non-200 response code" }

\* an HTTP call that was not canceled has returned: a source without a scheme
\* and a source without a path got their errors
C21_Returned ==
    (gatherer = "http" /\ pc = "returned" /\ ~ctxDone)
    => /\ ~Contains(src, << ":", "/", "/" >>)
            => result = [ m |-> "nil", err |-> "no source scheme provided" ]
       /\ (Contains(src, << ":", "/", "/" >>) /\ ParseUrl(src).path = << >>)
            => result = [ m |-> "nil", err |-> "specify a path to a file to download" ]

\* a step of an HTTP call: the four early errors leave the disk as it was, the
\* disk changes only once a 200 response is in, and the stored metadata change
\* only when the whole body is in the destination file
C21_Step ==
    gatherer' = "http" =>
      /\ (pc' = "returned" /\ result'.err \in HTTPEarlyErrors /\ (pc = "response" \/ calls' # calls))
           => fs' = fs /\ stored' = stored /\ result'.m = "nil"
      /\ fs' # fs
           => pc = "response" /\ result'.err \notin HTTPEarlyErrors
      /\ stored' # stored
           => /\ pc = "response" /\ result' = [ m |-> "HTTPMetadata", err |-> "nil" ]
              /\ stored'.http.Path \in DOMAIN fs'
              /\ fs'[stored'.http.Path].kind = "file"
              /\ fs'[stored'.http.Path].size = BodySize
              /\ stored'.http.Size = BodySize
              /\ stored'.http.URI = src

\* C21: HTTPGatherer.Gather returns an error and creates nothing when the source
\* has no scheme or no path, when the request fails and when the status is not
\* 200; the destination is created only after a 200 response, and the stored
\* metadata are updated only after the body was written in full.
C21_HttpErrorsCreateNothing == []C21_Returned /\ [][C21_Step]_vars

\* a non-200 response came back and the destination directory is still absent
C21_Witness ==
    /\ gatherer = "http" /\ pc = "returned"
    /\ result.err = "received non-200 response code"
    /\ dst = DstWork /\ DstWork \notin DOMAIN fs
    /\ stored = NoStored

\* the expander an archive name belongs to by its extension
ExpanderOfExtension(name) ==
    IF \E ext \in { << ".", "t", "a", "r" >>, << ".", "t", "a", "r", ".", "g", "z" >>, << ".", "t", "g", "z" >>, << ".", "t", "a", "r", ".", "b", "z", "2" >>, << ".", "t", "b", "z", "2" >> } : HasSuffix(name, ext)
    THEN "TarExpander"
    ELSE IF HasSuffix(name, << ".", "b", "z", "2" >>) THEN "Bzip2Expander"
    ELSE IF HasSuffix(name, << ".", "z", "i", "p" >>) THEN "ZipExpander"
    ELSE Nil

\* C25: with the stock expanders registered, FileGatherer.Gather hands a file
\* whose name ends in a recognised archive extension (a plain .tar included)
\* to the expander of that extension instead of copying it.
C25_ArchiveExpanded ==
    ( /\ gatherer = "file" /\ pc = "returned" /\ ~ctxDone
      /\ expanders # << >>
      /\ src \in DOMAIN fs /\ fs[src].kind = "file"
      /\ ExpanderOfExtension(src) # Nil )
    => \E b \in started : b.op = ExpanderOfExtension(src)


\* C28: when GetExpander has no expander for the format of a compressed source,
\* FileGatherer.Gather returns an error; it never calls Expand on a nil
\* expander.
C28_NilExpanderIsAnError ==
    ( /\ gatherer = "file" /\ pc = "returned" /\ ~ctxDone
      /\ src \in DOMAIN fs /\ fs[src].kind = "file"
      /\ IsCompressedFile(OnDisk(FileData(src))).ok
      /\ getExpander(src).ok /\ getExpander(src).e = Nil )
    => /\ result.m = "nil"
       /\ result.err \notin { "nil", "nil pointer dereference" }

\* a step of a call that began after the call of caller c had returned leaves
\* what c reads through its returned metadata as it was
C22_Step ==
    \A c, d \in Callers :
        ( /\ c # d
          /\ callers[c].pc = "returned" /\ callers[c].m.kind # "none"
          /\ callers[d].late /\ callers'[d] # callers[d] )
        => Observed(c)' = Observed(c)

\* C22: the Metadata a Gather call returned belongs to its caller: no later
\* Gather call on the same gatherer value changes the Path, Size, Digest or URI
\* read through it.
C22_MetadataOwnedByCaller == [][C22_Step]_vars

\* C23: when two goroutines call Gather with disjoint destinations on the
\* gatherer GetGatherer returned, each call returns Metadata that describes its
\* own source and destination, however the two calls interleave.
C23_ConcurrentOwnMetadata ==
    [][ \A c \in Callers :
          (callers[c].pc = "set" /\ callers'[c].pc = "returned")
          => Observed(c)' = callers'[c].own ]_vars

====
